---------------------------- MODULE Spec2Model ----------------------------
(***************************************************************************)
(* Farm Tower Defense (farm_tower_defense.py): the battle / progression    *)
(* engine as a state machine.                                              *)
(*                                                                         *)
(* The objects of the program are records (player, enemy, konami_manager)  *)
(* and the fields of Game are variables.  Every method is an operator on   *)
(* those records, computed as the code computes it; every handler is an    *)
(* action.  Several specifications share the definitions: each one is a    *)
(* set of executions of the same code (a whole session, one battle, one    *)
(* call of a method on every input of a bounded set).                      *)
(*                                                                         *)
(* Floats: every percentage of the code is a rational with a small         *)
(* denominator.  round(n * p) is Python's round-half-to-even and int(x)    *)
(* truncates; the one place where binary floating point gives another      *)
(* integer than the exact product (n * (1 - 0.3), see IntTimes07) is       *)
(* modelled as the float computation comes out.                            *)
(***************************************************************************)
EXTENDS Integers, Sequences, FiniteSets, TLC

VARIABLES
    player,          \* Game.player: the PlayerFarm
    enemy,           \* the enemy of the current wave (Monster or Boss)
    wave,            \* Game.wave
    turn_count,      \* Game.turn_count
    endless_mode,    \* Game.endless_mode
    stop_requested,  \* Game.stop_requested
    konami_manager,  \* Game.konami_manager: the KonamiManager
    used_events,     \* Game.used_events
    current_area,    \* Game.current_area ("none" for None)
    pc,              \* the position of the control flow
    obs,             \* what the last operation was called with and returned
    hist,            \* history: what has happened so far in the run
    twin             \* the player and the enemy of a second run of the session

vars == <<player, enemy, wave, turn_count, endless_mode, stop_requested,
          konami_manager, used_events, current_area, pc, obs, hist, twin>>

gameVars == <<wave, turn_count, endless_mode, stop_requested, used_events,
              current_area>>

---------------------------------------------------------------------------
(* Arithmetic of the code *)

Min(a, b) == IF a <= b THEN a ELSE b

Max(a, b) == IF a >= b THEN a ELSE b

\* Python's round(num / den) for num >= 0, den > 0: half goes to the even integer.
RoundDiv(num, den) ==
    LET q == num \div den
        r == num % den
    IN  IF 2 * r > den THEN q + 1
        ELSE IF 2 * r < den THEN q
        ELSE IF q % 2 = 0 THEN q ELSE q + 1

\* round(n * p) with the percentage p given in ten-thousandths (0.3 is 3000).
RoundPct(n, bp) == RoundDiv(n * bp, 10000)

\* int(n * p) for n >= 0, p in ten-thousandths: truncation.
IntPct(n, bp) == (n * bp) \div 10000

\* The n below 1000 where the float product n * (1 - 0.3) falls just under the
\* integer 7n/10, so that int() gives one less (90 * 0.7 = 62.99999999999999).
FloatLow07 ==
    {90, 170, 180, 330, 340, 350, 360} \cup {650 + 10 * k : k \in 0..8}

\* int(n * (1 - 0.3)), as the float computation comes out.
IntTimes07(n) == ((7 * n) \div 10) - (IF n \in FloatLow07 THEN 1 ELSE 0)

---------------------------------------------------------------------------
(* Farm: the base class of the player and the enemies *)

\* Farm.is_alive
is_alive(f) == f.health > 0

\* Farm.heal_percent(percent)
heal_percent(f, bp) ==
    [f EXCEPT !.health = Min(f.max_hp, f.health + RoundPct(f.max_hp, bp))]

\* Farm.heal_flat(amount)
heal_flat(f, amount) ==
    [f EXCEPT !.health = Min(f.max_hp, f.health + amount)]

\* Farm.take_damage(amount)
TakeNoDamage(f, amount) == f

TakeDamageUnclamped(f, amount) == [f EXCEPT !.health = f.health - amount]

FarmTakeDamage(f, amount) ==
    [f EXCEPT !.health = Max(0, f.health - amount)]

\* Farm.roll_attack_damage(rng): the values round(uniform(0.8, 1.2) * attack_power)
\* can take.
RollRange(attack_power) ==
    RoundPct(attack_power, 8000) .. RoundPct(attack_power, 12000)

---------------------------------------------------------------------------
(* PlayerFarm *)

SkillCatalog ==
    <<"Blazing Corn", "Rain Dance", "Stampede", "Fortify Fence",
      "Sap Burst", "Concussive Seed">>

SkillNames == {SkillCatalog[i] : i \in 1..Len(SkillCatalog)}

PassiveNames == {"Ember's Fury"}

\* PlayerFarm.__init__
NewPlayer ==
    [health |-> 150, max_hp |-> 150, attack_power |-> 25,
     skills |-> <<>>, coins |-> 0, gold |-> 0,
     tonic_turns |-> 0, tonic_reduction |-> 0,
     skill_cooldowns |-> [s \in SkillNames |-> 0],
     passives |-> [n \in PassiveNames |-> 0],
     konami_fragments |-> 0, konami_fragment_rounds_left |-> 0,
     konami_purchase_count |-> 0,
     gold_tip_shown |-> FALSE, merchant_skill_given |-> FALSE,
     temp_attack_bonus |-> 0,
     irrigation_attack_turns |-> 0, irrigation_attack_bonus |-> 0,
     irrigation_shield |-> 0]

\* PlayerFarm.take_damage(amount): the shield absorbs first.
TakeDamageIgnoringShield(p, amount) == FarmTakeDamage(p, amount)

PlayerTakeDamage(p, amount) ==
    IF p.irrigation_shield > 0 /\ amount > 0
    THEN LET absorbed == Min(amount, p.irrigation_shield)
         IN  FarmTakeDamage(
                 [p EXCEPT !.irrigation_shield = p.irrigation_shield - absorbed],
                 amount - absorbed)
    ELSE FarmTakeDamage(p, amount)

\* Farm.damage_percent(percent), which PlayerFarm inherits; amount is
\* round(max_hp * percent), one of the outcomes of RoundFloat: taken from the HP
\* as it is, whatever the shield holds.
DamagePercentThroughShield(p, amount) == PlayerTakeDamage(p, amount)

damage_percent(p, amount) == [p EXCEPT !.health = Max(0, @ - amount)]

---------------------------------------------------------------------------
(* Enemies *)

NoEnemy ==
    [kind |-> "none", health |-> 0, max_hp |-> 0, attack_power |-> 0,
     stunned |-> FALSE, attack_debuff |-> 0, last_gimmick_turn |-> -999]

\* KonamiManager.__init__(KONAMI_SEQUENCE, rng, max_uses)
KONAMI_SEQUENCE ==
    <<"up", "up", "down", "down", "left", "right", "left", "right", "b", "a">>

NewKonamiManager(max_uses) ==
    [buffer |-> <<>>, max_uses |-> max_uses, uses |-> 0, locked |-> FALSE]

NoObs == [op |-> "none"]

\* No second run
NoTwin == [none |-> TRUE]

NoHist == [none |-> TRUE]

\* Game.__init__
NewGame ==
    /\ wave = 1
    /\ turn_count = 0
    /\ endless_mode = FALSE
    /\ stop_requested = FALSE
    /\ konami_manager = NewKonamiManager(0)
    /\ used_events = {}
    /\ current_area = "none"

---------------------------------------------------------------------------
(* Monster, Boss and the enemy of a wave *)

STORY_END_WAVE == 25

\* Monster.__init__(wave)
Monster(w) ==
    [kind |-> "Monster", health |-> 100 + w * 12, max_hp |-> 100 + w * 12,
     attack_power |-> 12 + w * 3,
     stunned |-> FALSE, attack_debuff |-> 0, last_gimmick_turn |-> -999]

\* Boss.__init__(wave): a Monster with a flat bonus by wave bracket.
Boss(w) ==
    LET add_hp == IF w <= 10 THEN 80 ELSE IF w <= 30 THEN 150 ELSE 250
        add_attack == IF w <= 10 THEN 15 ELSE IF w <= 30 THEN 30 ELSE 40
        mo == Monster(w)
    IN  [mo EXCEPT !.kind = "Boss",
                   !.max_hp = @ + add_hp,
                   !.health = @ + add_hp,
                   !.attack_power = @ + add_attack]

\* Game._play_wave: the enemy of the wave, with the endless-mode bonus.
SpawnEnemy(w, endless) ==
    LET e == IF w % 5 = 0 THEN Boss(w) ELSE Monster(w)
        extra == Max(0, w - STORY_END_WAVE)
        hp == IF e.kind = "Boss" THEN extra * 30 ELSE extra * 20
        atk == IF e.kind = "Boss" THEN extra * 6 ELSE extra * 4
    IN  IF endless
        THEN [e EXCEPT !.max_hp = @ + hp, !.health = @ + hp,
                       !.attack_power = @ + atk]
        ELSE e

---------------------------------------------------------------------------
(* Skills *)

\* Skill.cooldown of each skill of the catalog
SkillCooldown(name) ==
    CASE name = "Blazing Corn" -> 4
      [] name = "Rain Dance" -> 5
      [] name = "Stampede" -> 5
      [] name = "Fortify Fence" -> 9999
      [] name = "Sap Burst" -> 3
      [] name = "Concussive Seed" -> 4

\* PlayerFarm._skill_increase_max_hp(player, 25)
skill_increase_max_hp(p, amount) ==
    [p EXCEPT !.max_hp = @ + amount, !.health = @ + amount]

\* PlayerFarm._skill_blazing_corn
skill_blazing_corn(p, e) ==
    LET damage == RoundPct(e.health, 3000) + RoundPct(p.attack_power, 3000)
    IN  [p |-> p, e |-> [FarmTakeDamage(e, damage) EXCEPT !.stunned = TRUE]]

\* PlayerFarm._skill_rain_dance_buffed
skill_rain_dance_buffed(p) ==
    heal_flat(p, RoundPct(p.max_hp, 3000) + RoundPct(p.attack_power, 5000))

\* PlayerFarm._skill_stampede
\* Stampede with twice the debuff.
StampedeDebuffsTwice(p, e) ==
    LET damage == RoundPct(p.attack_power, 13000)
        recoil == RoundPct(damage, 3000)
    IN  [p |-> PlayerTakeDamage(p, recoil),
         e |-> [FarmTakeDamage(e, damage) EXCEPT !.attack_debuff = @ + 60]]

skill_stampede(p, e) ==
    LET damage == RoundPct(p.attack_power, 13000)
        recoil == RoundPct(damage, 3000)
    IN  [p |-> PlayerTakeDamage(p, recoil),
         e |-> [FarmTakeDamage(e, damage) EXCEPT !.attack_debuff = @ + 30]]

\* PlayerFarm._skill_concussive_seed
skill_concussive_seed(p, e) ==
    LET damage == RoundPct(p.attack_power, 5000)
    IN  [p |-> p, e |-> [FarmTakeDamage(e, damage) EXCEPT !.stunned = TRUE]]

\* PlayerFarm._skill_sap_burst
skill_sap_burst(p, e) ==
    LET damage == RoundPct(p.attack_power, 9000)
    IN  [p |-> heal_percent(p, 1200), e |-> FarmTakeDamage(e, damage)]

\* Skill.use(player, target, io): the effect of the named skill
SkillUse(name, p, e) ==
    CASE name = "Blazing Corn" -> skill_blazing_corn(p, e)
      [] name = "Rain Dance" -> [p |-> skill_rain_dance_buffed(p), e |-> e]
      [] name = "Stampede" -> skill_stampede(p, e)
      [] name = "Fortify Fence" -> [p |-> skill_increase_max_hp(p, 25), e |-> e]
      [] name = "Sap Burst" -> skill_sap_burst(p, e)
      [] name = "Concussive Seed" -> skill_concussive_seed(p, e)

\* int(index_raw) of Game._handle_skill, for the answers that are numbers
ParseInt(raw) ==
    CASE raw = "0" -> 0
      [] raw = "1" -> 1
      [] raw = "2" -> 2
      [] raw = "3" -> 3
      [] raw = "4" -> 4
      [] raw = "5" -> 5
      [] raw = "6" -> 6
      [] raw = "7" -> 7
      [] raw = "-1" -> -1
      [] OTHER -> 0

\* The answers int() takes; the others raise ValueError.
IsInt(raw) == raw \in {"0", "1", "2", "3", "4", "5", "6", "7", "-1"}

\* Game._handle_skill, setting the cooldown after the use (lines 693-697)
SetCooldown(p, name) ==
    LET cd == SkillCooldown(name)
    IN  IF cd > 0 /\ cd < 9999
        THEN [p EXCEPT !.skill_cooldowns[name] = cd]
        ELSE p

\* Game._handle_skill(enemy) with the text answered to "Choose a skill: ".
\* result: "used", "on_cooldown" or "emote" (no skills, no number, no such skill).
HandleSkillIgnoringCooldown(p, e, raw) ==
    LET index == ParseInt(raw) - 1
    IN  IF Len(p.skills) = 0 \/ ~IsInt(raw)
           \/ ~(0 <= index /\ index < Len(p.skills))
        THEN [p |-> p, e |-> e, result |-> "emote", skill |-> "none"]
        ELSE LET name == p.skills[index + 1]
                 used == SkillUse(name, p, e)
             IN  [p |-> SetCooldown(used.p, name), e |-> used.e,
                  result |-> "used", skill |-> name]

handle_skill(p, e, raw) ==
    LET index == ParseInt(raw) - 1
    IN  IF Len(p.skills) = 0
        THEN [p |-> p, e |-> e, result |-> "emote", skill |-> "none"]
        ELSE IF ~IsInt(raw)
        THEN [p |-> p, e |-> e, result |-> "emote", skill |-> "none"]
        ELSE IF 0 <= index /\ index < Len(p.skills)
        THEN LET name == p.skills[index + 1]
                 used == SkillUse(name, p, e)
             IN  IF p.skill_cooldowns[name] > 0
                 THEN [p |-> p, e |-> e, result |-> "on_cooldown", skill |-> name]
                 ELSE [p |-> SetCooldown(used.p, name), e |-> used.e,
                       result |-> "used", skill |-> name]
        ELSE [p |-> p, e |-> e, result |-> "emote", skill |-> "none"]

---------------------------------------------------------------------------
(* The battle loop *)

\* PlayerFarm.attack(other, rng) with the rolled damage
PlayerAttack(p, e, roll) ==
    LET boosted == p.irrigation_attack_turns > 0 /\ p.irrigation_attack_bonus > 0
        damage == IF boosted
                  THEN RoundDiv(roll * (100 + p.irrigation_attack_bonus), 100)
                  ELSE roll
        turns == p.irrigation_attack_turns - 1
    IN  [p |-> IF boosted
               THEN [p EXCEPT !.irrigation_attack_turns = turns,
                              !.irrigation_attack_bonus =
                                  IF turns <= 0 THEN 0 ELSE @]
               ELSE p,
         e |-> FarmTakeDamage(e, damage),
         damage |-> damage]

IdleHeals(p, e, choice, roll, raw) ==
    CASE choice = "1" ->
            LET a == PlayerAttack(p, e, roll)
            IN  [p |-> a.p, e |-> a.e, result |-> "attack", skill |-> "none"]
      [] choice = "3" -> handle_skill(p, e, raw)
      [] OTHER ->
            [p |-> heal_flat(p, 50), e |-> e, result |-> "free_turn",
             skill |-> "none"]

\* Game._show_options(enemy): choice is the answer to the prompt, roll the damage
\* roll of an attack, raw the answer to "Choose a skill: ".
show_options(p, e, choice, roll, raw) ==
    CASE choice = "1" ->
            LET a == PlayerAttack(p, e, roll)
            IN  [p |-> a.p, e |-> a.e, result |-> "attack", skill |-> "none"]
      [] choice = "2" ->
            [p |-> heal_flat(p, 50), e |-> e, result |-> "heal", skill |-> "none"]
      [] choice = "3" -> handle_skill(p, e, raw)
      [] OTHER -> [p |-> p, e |-> e, result |-> "free_turn", skill |-> "none"]

\* Game._battle, lines 579-587: the escalation of a long battle
Escalate(e, turn) ==
    IF (turn >= 10 /\ e.kind # "Boss") \/ (turn >= 15 /\ e.kind = "Boss")
    THEN [e EXCEPT !.attack_power = (3 * @) \div 2]
    ELSE e

\* Game._battle, lines 595-600: the cooldown tick
TickCooldowns(cooldowns) ==
    [s \in DOMAIN cooldowns |-> IF cooldowns[s] > 0 THEN cooldowns[s] - 1 ELSE 0]

\* int(n * (1 - r)) for the reductions of the code: 0.3 goes through the float
\* product, the others come out as the exact product does.
ReduceBy(n, percent) ==
    IF percent = 30 THEN IntTimes07(n) ELSE (n * (100 - percent)) \div 100

TonicNeverSpent(p, e, roll) ==
    IF ~is_alive(e) THEN [p |-> p, e |-> e, attacked |-> FALSE, actual |-> 0]
    ELSE IF e.stunned
    THEN [p |-> p, e |-> [e EXCEPT !.stunned = FALSE],
          attacked |-> FALSE, actual |-> 0]
    ELSE LET debuff == e.attack_debuff
             afterDebuff == IF debuff # 0 THEN Max(0, ReduceBy(roll, debuff))
                            ELSE roll
             tonic == p.tonic_turns > 0 /\ p.tonic_reduction > 0
             actual == IF tonic THEN ReduceBy(afterDebuff, p.tonic_reduction)
                       ELSE afterDebuff
         IN  [p |-> PlayerTakeDamage(p, actual),
              e |-> [e EXCEPT !.attack_debuff = 0],
              attacked |-> TRUE, actual |-> actual]

\* Game._battle, lines 609-631: the enemy's action with its rolled damage.
enemy_action(p, e, roll) ==
    IF ~is_alive(e) THEN [p |-> p, e |-> e, attacked |-> FALSE, actual |-> 0]
    ELSE IF e.stunned
    THEN [p |-> p, e |-> [e EXCEPT !.stunned = FALSE],
          attacked |-> FALSE, actual |-> 0]
    ELSE LET debuff == e.attack_debuff
             afterDebuff == IF debuff # 0 THEN Max(0, ReduceBy(roll, debuff))
                            ELSE roll
             tonic == p.tonic_turns > 0 /\ p.tonic_reduction > 0
             actual == IF tonic THEN ReduceBy(afterDebuff, p.tonic_reduction)
                       ELSE afterDebuff
             turns == p.tonic_turns - 1
             pt == IF tonic
                   THEN [p EXCEPT !.tonic_turns = turns,
                                  !.tonic_reduction = IF turns = 0 THEN 0 ELSE @]
                   ELSE p
         IN  [p |-> PlayerTakeDamage(pt, actual),
              e |-> [e EXCEPT !.attack_debuff = 0],
              attacked |-> TRUE, actual |-> actual]

\* Game._maybe_trigger_endless_gimmick(enemy): fires is the outcome of
\* rng.random() < chance (the chance is below 1 at every wave), drain the HP drained.
GimmickNeverGated(e, turn) == TRUE

GimmickGateOpen(e, turn) == ~(turn - e.last_gimmick_turn < 3)

GimmickPercent(e, w) ==
    LET wave_scale == Max(0, w - STORY_END_WAVE)
    IN  IF e.kind = "Boss" THEN 600 + Min(1200, wave_scale * 20)
        ELSE 400 + Min(800, wave_scale * 15)

\* round(x) of a float product that is exactly halfway between two integers comes
\* out as either neighbour, depending on the binary representation of the
\* percentage: both are outcomes.
RoundFloat(n, bp) ==
    IF (2 * n * bp) % 10000 = 0 /\ (n * bp) % 10000 # 0
    THEN {(n * bp) \div 10000, ((n * bp) \div 10000) + 1}
    ELSE {RoundPct(n, bp)}

GimmickDrains(p, e, w) ==
    {Max(1, d) : d \in RoundFloat(p.max_hp, GimmickPercent(e, w))}

maybe_trigger_endless_gimmick(p, e, turn, fires, drain) ==
    IF ~GimmickGateOpen(e, turn) \/ ~fires
    THEN [p |-> p, e |-> e, drained |-> FALSE]
    ELSE [p |-> PlayerTakeDamage(p, drain),
          e |-> [e EXCEPT !.last_gimmick_turn = turn],
          drained |-> TRUE]

\* Game._offer_boss_passive(boss): bonus and backlash are the outcomes of
\* rng.random() < 0.2 and rng.random() < 0.10.
OfferWithoutStackCap(p, bonus, backlash) ==
    LET name == "Ember's Fury"
    IN  [p EXCEPT !.passives[name] = @ + 1, !.attack_power = @ + 5]

SurgeWithoutAttack(p, bonus, backlash) ==
    LET name == "Ember's Fury"
        initial_stacks == p.passives[name]
        stacks == Min(3, initial_stacks + 1)
        p1 == [p EXCEPT !.passives[name] = stacks, !.attack_power = @ + 5]
        extra == initial_stacks > 0 /\ stacks < 3 /\ bonus
        p2 == IF extra THEN [p1 EXCEPT !.passives[name] = Min(3, stacks + 1)]
              ELSE p1
        lost == Max(1, IntPct(p2.max_hp, 500))
    IN  IF initial_stacks >= 3 THEN p
        ELSE IF backlash THEN PlayerTakeDamage(p2, lost)
        ELSE p2

offer_boss_passive(p, bonus, backlash) ==
    LET name == "Ember's Fury"
        stackable == TRUE
        initial_stacks == p.passives[name]
        stacks == Min(3, initial_stacks + 1)
        p1 == [p EXCEPT !.passives[name] = stacks, !.attack_power = @ + 5]
        extra == stackable /\ initial_stacks > 0 /\ stacks < 3 /\ bonus
        p2 == IF extra
              THEN [p1 EXCEPT !.passives[name] = Min(3, stacks + 1),
                              !.attack_power = @ + 5]
              ELSE p1
        lost == Max(1, IntPct(p2.max_hp, 500))
    IN  IF initial_stacks >= 3 THEN p
        ELSE IF backlash THEN PlayerTakeDamage(p2, lost)
        ELSE p2

\* Game._battle, lines 633-645: the rewards of a defeated enemy
Reward(p, e, bonus, backlash) ==
    IF is_alive(e) THEN p
    ELSE LET paid == [p EXCEPT !.coins = @ + (IF e.kind # "Boss" THEN 6 ELSE 15)]
             dropped == IF paid.konami_fragments < 3
                        THEN [paid EXCEPT !.konami_fragments = @ + 1,
                                          !.konami_fragment_rounds_left = 5]
                        ELSE paid
         IN  IF e.kind = "Boss"
             THEN offer_boss_passive(dropped, bonus, backlash)
             ELSE paid

\* The damage rolls explored: every value of the range ("all"), its two ends
\* ("ends"), or one end ("low", "high").
Rolls(attack_power, mode) ==
    CASE mode = "all" -> RollRange(attack_power)
      [] mode = "low" -> {RoundPct(attack_power, 8000)}
      [] mode = "high" -> {RoundPct(attack_power, 12000)}
      [] OTHER -> {RoundPct(attack_power, 8000), RoundPct(attack_power, 12000)}

\* Turns explored in one battle (the enemy's attack grows without bound in a
\* battle that the player prolongs).
MaxTurns == 30

\* What a session remembers of its past: the endless prompts shown and, for every
\* skill, the cooldown ticks since its last use, counted up to SinceCap (-1: never
\* used); plan names the player that is explored.
SinceCap == 6

NewHist(plan) ==
    [plan |-> plan, prompts |-> 0, since |-> [s \in SkillNames |-> -1]]

Ticked(since) ==
    [s \in SkillNames |->
        IF since[s] \in 0..(SinceCap - 1) THEN since[s] + 1 ELSE since[s]]

\* The head of the loop without the count of the turn: every turn is the first.
TurnNotCounted ==
    /\ pc = "battle"
    /\ is_alive(player) /\ is_alive(enemy)
    /\ turn_count' = turn_count
    /\ enemy' = Escalate(enemy, turn_count)
    /\ player' = [player EXCEPT !.skill_cooldowns = TickCooldowns(@)]
    /\ pc' = "action"
    /\ obs' = [op |-> "tick"]
    /\ hist' = [hist EXCEPT !.since = Ticked(@)]
    /\ UNCHANGED <<wave, endless_mode, stop_requested, konami_manager,
                   used_events, current_area>>

\* Game._battle, lines 578-600: the loop test, the turn counter, the escalation
\* and the cooldown tick, up to the prompt of _show_options.
BattleTurnStart ==
    /\ pc = "battle"
    /\ is_alive(player) /\ is_alive(enemy)
    /\ turn_count < MaxTurns
    /\ turn_count' = turn_count + 1
    /\ enemy' = Escalate(enemy, turn_count + 1)
    /\ player' = [player EXCEPT !.skill_cooldowns = TickCooldowns(@)]
    /\ pc' = "action"
    /\ obs' = [op |-> "tick"]
    /\ hist' = [hist EXCEPT !.since = Ticked(@)]
    /\ UNCHANGED <<wave, endless_mode, stop_requested, konami_manager,
                   used_events, current_area>>

\* Game._battle, lines 602-645: the player's action, the endless gimmick, the
\* enemy's action and the rewards of one turn.  c holds the answers and the
\* random outcomes of the turn: the answer to "Choose action", the player's damage
\* roll, the answer to "Choose a skill", whether the gimmick fires and what it
\* drains, the enemy's damage roll, the two rolls of the boss passive.
battle_turn(p, e, endless, turn, c) ==
    LET outcome(acted, drained, hit) ==
            [p |-> Reward(hit.p, hit.e, c.bonus, c.backlash),
             e |-> hit.e,
             result |-> acted.result,
             skill |-> acted.skill,
             drained |-> drained.drained,
             attacked |-> hit.attacked]
        enemy_acts(acted, drained) ==
            outcome(acted, drained, enemy_action(drained.p, drained.e, c.eroll))
        gimmick(acted) ==
            enemy_acts(acted,
                       IF endless /\ is_alive(acted.e)
                       THEN maybe_trigger_endless_gimmick(acted.p, acted.e, turn,
                                                          c.fires, c.drain)
                       ELSE [p |-> acted.p, e |-> acted.e, drained |-> FALSE])
    IN  gimmick(show_options(p, e, c.choice, c.roll, c.raw))

\* The answers of the player in a turn, with the damage roll of an attack
PlayerInputs(p, x) ==
    UNION {{<<choice, roll, raw>> :
               roll \in (IF choice = "1" THEN Rolls(p.attack_power, x.prolls)
                         ELSE {0}),
               raw \in (IF choice = "3" THEN x.raws ELSE {""})}
           : choice \in x.choices}

\* The answers and random outcomes a turn can meet.  x.choices are the answers to
\* "Choose action" that are explored, x.raws those to "Choose a skill", x.prolls
\* and x.erolls the rolls of the player and of the enemy, x.gimmicks whether the
\* endless gimmick may fire, x.passives the outcomes of the two rolls of the
\* boss passive.
TurnInputs(p, e, endless, turn, w, x) ==
    UNION {
      LET acted == show_options(p, e, choice, roll, raw)
          gimmick == endless /\ is_alive(acted.e)
                     /\ GimmickGateOpen(acted.e, turn)
      IN  UNION {
            LET drained == IF endless /\ is_alive(acted.e)
                           THEN maybe_trigger_endless_gimmick(
                                    acted.p, acted.e, turn, fires, drain)
                           ELSE [p |-> acted.p, e |-> acted.e,
                                 drained |-> FALSE]
                attacks == is_alive(drained.e) /\ ~drained.e.stunned
                boss_down == ~is_alive(drained.e) /\ drained.e.kind = "Boss"
            IN  {[choice |-> choice, roll |-> roll, raw |-> raw,
                  fires |-> fires, drain |-> drain, eroll |-> eroll,
                  bonus |-> bonus, backlash |-> backlash] :
                    eroll \in (IF attacks
                               THEN Rolls(drained.e.attack_power, x.erolls)
                               ELSE {0}),
                    bonus \in (IF boss_down
                                  /\ drained.p.passives["Ember's Fury"] = 1
                               THEN x.passives ELSE {FALSE}),
                    backlash \in (IF boss_down
                                     /\ drained.p.passives["Ember's Fury"] < 3
                                  THEN x.passives ELSE {FALSE})}
            : <<fires, drain>> \in
                 {<<FALSE, 0>>} \cup
                 (IF gimmick /\ TRUE \in x.gimmicks
                  THEN {<<TRUE, d>> : d \in GimmickDrains(acted.p, acted.e, w)}
                  ELSE {})}
      : <<choice, roll, raw>> \in PlayerInputs(p, x)}

BattleTurn(x) ==
    /\ pc = "action"
    /\ \E c \in TurnInputs(player, enemy, endless_mode, turn_count, wave, x) :
       \E r \in {battle_turn(player, enemy, endless_mode, turn_count, c)} :
           /\ player' = r.p
           /\ enemy' = r.e
           /\ obs' = [op |-> "turn", c |-> c,
                      choice |-> c.choice,
                      result |-> r.result,
                      skill |-> r.skill,
                      since |-> IF r.skill = "none" THEN -1
                                ELSE hist.since[r.skill],
                      drained |-> r.drained,
                      attacked |-> r.attacked]
           /\ hist' = IF r.result = "used"
                      THEN [hist EXCEPT !.since[r.skill] = 0]
                      ELSE hist
    /\ pc' = "battle"
    /\ UNCHANGED <<gameVars, konami_manager>>

---------------------------------------------------------------------------
(* Scenario A: the first battle of a session, the player always attacking *)

\* Game.start, lines 505-508, and the first enemy of Game._play_wave
InitScenarioA ==
    /\ player = [NewPlayer EXCEPT !.coins = 2]
    /\ NewGame
    /\ enemy = SpawnEnemy(1, FALSE)
    /\ pc = "battle"
    /\ obs = NoObs
    /\ hist = NewHist("attacker")
    /\ twin = NoTwin

ScenarioAInputs ==
    [choices |-> {"1"}, raws |-> {""}, prolls |-> "all", erolls |-> "all"]

AlwaysAttack == BattleTurn(ScenarioAInputs) /\ UNCHANGED twin

TurnStartA == BattleTurnStart /\ UNCHANGED twin

NextScenarioA == TurnStartA \/ AlwaysAttack

SpecScenarioA == InitScenarioA /\ [][NextScenarioA]_vars

BattleOngoing == is_alive(player) /\ is_alive(enemy)

\* C7: from the initial session state (player 150/150 HP, attack 25, 2 coins, no
\* skills; wave-1 Monster with HP 112 and attack 15), the player attacking on
\* every turn, the battle ends within 15 turns whatever the damage rolls are:
\* after the 15th turn, at the latest, one side is at 0 HP.
C7_ScenarioAEndsWithin15 ==
    /\ pc = "battle" /\ turn_count = 0 =>
          /\ player.health = 150 /\ player.max_hp = 150
          /\ player.attack_power = 25 /\ player.coins = 2
          /\ enemy.health = 112 /\ enemy.attack_power = 15
    /\ turn_count <= 15
    /\ pc = "battle" /\ turn_count = 15 => ~BattleOngoing

\* The battle has ended: the enemy is at 0 HP after the worst rolls of the player
\* (six attacks of 20 against 112 HP), the player alive.
C7_Witness ==
    /\ pc = "battle"
    /\ turn_count = 6
    /\ ~is_alive(enemy)
    /\ is_alive(player)
    /\ player.coins = 8

---------------------------------------------------------------------------
(* More of PlayerFarm *)

\* PlayerFarm.wave_clear_upgrade
UpgradeWithoutHeal(p) ==
    [p EXCEPT !.attack_power = @ + 5, !.max_hp = @ + 10]

wave_clear_upgrade(p) ==
    [p EXCEPT !.attack_power = @ + 5,
              !.max_hp = @ + 10,
              !.health = p.max_hp + 10]

\* The skills of the catalog the player does not own, in catalog order.
Unowned(p) ==
    {n \in SkillNames : \A i \in 1..Len(p.skills) : p.skills[i] # n}

FirstUnowned(p) ==
    LET idx == {i \in 1..Len(SkillCatalog) : SkillCatalog[i] \in Unowned(p)}
    IN  IF idx = {} THEN "none"
        ELSE SkillCatalog[CHOOSE i \in idx : \A j \in idx : i <= j]

\* What the shuffle of PlayerFarm.add_new_skill can put first among the skills not
\* owned ("none" when all six are owned); every one of them, or with wide = FALSE
\* only the one an unshuffled catalog gives.
SkillPicks(p, wide) ==
    IF Unowned(p) = {} THEN {"none"}
    ELSE IF wide THEN Unowned(p)
    ELSE {FirstUnowned(p)}

\* add_new_skill without the test for a skill already owned: the first skill
\* of the shuffled catalog is taken.
AddAnySkill(p, pick) ==
    IF pick = "none" THEN [p EXCEPT !.skills = Append(@, SkillCatalog[1])]
    ELSE [p EXCEPT !.skills = Append(@, pick)]

\* PlayerFarm.add_new_skill: pick is the first skill not owned of the shuffled
\* catalog.
add_new_skill(p, pick) ==
    IF pick \in Unowned(p)
    THEN [p EXCEPT !.skills = Append(@, pick)]
    ELSE p

\* PlayerFarm.attack_boost
attack_boost(p) == [p EXCEPT !.attack_power = @ + 20]

\* PlayerFarm.defense_boost
defense_boost(p) ==
    [p EXCEPT !.max_hp = @ + 50, !.health = Min(p.max_hp + 50, p.health)]

\* The price of the first tier at every purchase count: the extra tier of
\* endless mode is kept, the tiers of the purchases are not.
FlatActivationCost(p, extra_tiers) ==
    LET tiers == Max(0, extra_tiers)
    IN  [coins |-> 7 + (tiers * 2), gold |-> 5 + tiers]

\* PlayerFarm.konami_activation_cost(extra_tiers)
konami_activation_cost(p, extra_tiers) ==
    LET tiers == (p.konami_purchase_count \div 3) + Max(0, extra_tiers)
    IN  [coins |-> 7 + (tiers * 2), gold |-> 5 + tiers]

---------------------------------------------------------------------------
(* Random events *)

RANDOM_EVENTS ==
    <<"Mysterious Merchant", "Lightning Storm", "Lost Cow Returns",
      "Strange Seed Sprouts", "A Trap", "Wandering Bard", "Locust Swarm",
      "Irrigation Boom", "Moonlit Harvest">>

BAD_EVENTS == <<"Sudden Hail", "Rusty Pitchfork", "Thorny Brambles">>

\* WAVE_RANGE_EVENTS: the pair of events of the wave's band
WaveRangeEvents(w) ==
    IF w \in 1..10 THEN <<"Butterfly Bloom", "Soggy Furrows">>
    ELSE IF w \in 11..20 THEN <<"Cinder Drift", "Charred Fence">>
    ELSE IF w \in 21..30 THEN <<"Gravel Gust", "Rusted Plow">>
    ELSE <<>>

\* Game._event_pool
event_pool(w) == RANDOM_EVENTS \o BAD_EVENTS \o WaveRangeEvents(w)

\* The scale of endless mode without its cap.
ScaleWithoutCap(w, endless) ==
    IF ~endless THEN 100 ELSE 100 + Max(0, w - STORY_END_WAVE) * 3

\* Game._event_scale, in percent
event_scale(w, endless) ==
    IF ~endless THEN 100
    ELSE Min(200, 100 + Max(0, w - STORY_END_WAVE) * 3)

\* Game._scaled_percent(base), base in percent, the result in ten-thousandths
WholePercentUncapped(base, w, endless) == 100 * base * event_scale(w, endless)

scaled_percent(base, w, endless) == Min(4500, base * event_scale(w, endless))

\* The base percentage of the events that damage by a percentage of max HP
EventDamageBase(event) ==
    CASE event = "Lightning Storm" -> 18
      [] event = "A Trap" -> 20
      [] event = "Locust Swarm" -> 12
      [] event = "Soggy Furrows" -> 10
      [] event = "Cinder Drift" -> 14
      [] event = "Gravel Gust" -> 10
      [] event = "Sudden Hail" -> 12
      [] event = "Rusty Pitchfork" -> 10
      [] event = "Thorny Brambles" -> 8
      [] OTHER -> 0

\* The range of rng.randint of the events that move coins
EventCoins(event) ==
    CASE event = "Mysterious Merchant" -> 3..6
      [] event = "Lost Cow Returns" -> 1..3
      [] event = "Wandering Bard" -> 3..8
      [] event = "Moonlit Harvest" -> 2..5
      [] event = "Butterfly Bloom" -> 2..5
      [] event = "Charred Fence" -> 2..4
      [] event = "Rusted Plow" -> 3..6
      [] OTHER -> {0}

\* round(max_hp * percent) of an event: amount is one of RoundFloat's outcomes.
\* Game._apply_event and the handlers _event_*: the event applied to the player;
\* coins is the rng.randint drawn, gold the outcome of the gold roll, pick the
\* skill add_new_skill comes to, amount the rounded percentage of max HP.
apply_event(p, event, coins, gold, pick, amount) ==
    CASE event = "Mysterious Merchant" ->
            IF ~p.merchant_skill_given
            THEN [add_new_skill(p, pick) EXCEPT !.merchant_skill_given = TRUE]
            ELSE [p EXCEPT !.coins = @ + coins]
      [] event = "Lost Cow Returns" ->
            [p EXCEPT !.irrigation_shield = Max(@, Max(1, amount)),
                      !.coins = @ + coins]
      [] event = "Strange Seed Sprouts" ->
            [p EXCEPT !.max_hp = @ + 15, !.health = @ + 15]
      [] event = "Wandering Bard" -> [p EXCEPT !.coins = @ + coins]
      [] event = "Irrigation Boom" ->
            [p EXCEPT !.irrigation_attack_turns = Max(@, 2),
                      !.irrigation_attack_bonus = Max(@, 30),
                      !.irrigation_shield = Max(@, Max(1, amount))]
      [] event = "Moonlit Harvest" ->
            [p EXCEPT !.coins = @ + coins,
                      !.gold = IF gold THEN @ + 1 ELSE @]
      [] event = "Butterfly Bloom" ->
            [p EXCEPT !.coins = @ + coins,
                      !.attack_power = @ + 3,
                      !.temp_attack_bonus = @ + 3]
      [] event = "Charred Fence" -> [p EXCEPT !.coins = Max(0, @ - coins)]
      [] event = "Rusted Plow" -> [p EXCEPT !.coins = @ + coins]
      [] EventDamageBase(event) > 0 -> damage_percent(p, amount)
      [] OTHER -> p

\* The percentage (ten-thousandths) an event rounds against max HP: the damage of
\* a damaging event, the shield of Lost Cow (three times the scaled 12%, capped
\* again), the shield of Irrigation Boom; 0 for the others.
EventPercent(event, w, endless) ==
    CASE event = "Lost Cow Returns" ->
            Min(4500, scaled_percent(12, w, endless) * 3)
      [] event = "Irrigation Boom" -> scaled_percent(10, w, endless)
      [] EventDamageBase(event) > 0 ->
            scaled_percent(EventDamageBase(event), w, endless)
      [] OTHER -> 0

Lowest(S) == CHOOSE x \in S : \A y \in S : x <= y

\* The outcomes of one event on the player.  x tells what is explored: with
\* x.draws are the events of which every rng.randint and both outcomes of the
\* gold roll are explored, of the others the lowest randint and no gold; with
\* x.picks every skill add_new_skill can come to, else the one of an unshuffled
\* catalog.
EventOutcomes(p, event, w, endless, x) ==
    {apply_event(p, event, coins, gold, pick, amount) :
        coins \in (IF event \in x.draws THEN EventCoins(event)
                   ELSE {Lowest(EventCoins(event))}),
        gold \in (IF event \in x.draws /\ event = "Moonlit Harvest"
                  THEN BOOLEAN
                  ELSE {FALSE}),
        pick \in (IF event = "Mysterious Merchant" /\ ~p.merchant_skill_given
                  THEN SkillPicks(p, x.picks) ELSE {"none"}),
        amount \in RoundFloat(p.max_hp, EventPercent(event, w, endless))}

SeqToSet(q) == {q[i] : i \in 1..Len(q)}

\* The outcomes of rng.choice(q) explored
Explored(q, mode) ==
    CASE mode = "any" -> SeqToSet(q)
      [] mode = "ends" -> {q[1], q[Len(q)]}
      [] mode = "late" -> {q[i] : i \in Max(1, Len(q) - 5)..Len(q)}
      [] OTHER -> {q[1]}

\* Game._trigger_random_event: the outcomes [p, used, fired, crashed].  The chosen
\* event is any of the remaining ones (rng.choice) with x.events = "any", the
\* first or the last of them with "ends", one of the last six with "late", else
\* the first; x.extras says the same of the extra event;
\* x.chains are the outcomes of rng.random() < 0.18 explored.  rng.choice of an
\* empty list raises IndexError: crashed.
trigger_random_event(p, used, w, endless, x) ==
    LET events == event_pool(w)
        cleared == IF Cardinality(used) = Len(events) THEN {} ELSE used
        remaining == SelectSeq(events, LAMBDA ev : ev \notin cleared)
        firsts == Explored(remaining, x.events)
        extras(chosen) ==
            LET others == SelectSeq(events, LAMBDA ev : ev # chosen)
            IN  Explored(others, x.extras)
    IN  IF remaining = <<>>
        THEN {[p |-> p, used |-> cleared, fired |-> <<>>, crashed |-> TRUE]}
        ELSE UNION {
               UNION {
                 {[p |-> p1, used |-> cleared \cup {chosen},
                   fired |-> <<chosen>>, crashed |-> FALSE]
                    : chain \in x.chains \ {TRUE}}
                 \cup
                 UNION {
                   {[p |-> p2, used |-> cleared \cup {chosen, extra},
                     fired |-> <<chosen, extra>>, crashed |-> FALSE]
                      : p2 \in EventOutcomes(p1, extra, w, endless, x)}
                    : extra \in (IF TRUE \in x.chains THEN extras(chosen)
                                 ELSE {})}
                 : p1 \in EventOutcomes(p, chosen, w, endless, x)}
               : chosen \in firsts}

\* AREA_RANGES and Game._enter_area_if_needed: the area of the wave
AreaOf(w) ==
    IF w \in 1..10 THEN "Meadowfront"
    ELSE IF w \in 11..20 THEN "Ashen Fields"
    ELSE IF w \in 21..30 THEN "Ironridge"
    ELSE IF w \in 31..9999 THEN "Endless Verge"
    ELSE "none"

enter_area_if_needed(area, w) == IF AreaOf(w) = "none" THEN area ELSE AreaOf(w)

\* Game._story_arc, lines 734-754: the story beat of the wave; decision is the
\* answer at wave 25, pick the skill of wave 15.
StoryDecisions == {"1", "2", ""}

story_beat(p, w, decision, pick) ==
    IF w % 5 # 0 THEN p
    ELSE IF w = 15 THEN add_new_skill(p, pick)
    ELSE IF w = 25
    THEN IF decision = "1" THEN defense_boost(p) ELSE attack_boost(p)
    ELSE p

\* Game._story_arc, lines 757-760: whether the wave triggers a random event
EveryThirdWave(w) == w > 1 /\ w % 3 = 0

EventWave(w) == w > 1 /\ w % 3 = 0 /\ w \notin {5, 10, 15}

---------------------------------------------------------------------------
(* One call of PlayerFarm.take_damage on every input of a bounded set *)

MaxShield == 12

MaxDamage == 24

InitShield ==
    /\ \E h \in 1..NewPlayer.max_hp, s \in 0..MaxShield :
           player = [NewPlayer EXCEPT !.health = h, !.irrigation_shield = s]
    /\ enemy = NoEnemy
    /\ NewGame
    /\ pc = "call"
    /\ obs = NoObs
    /\ hist = NoHist
    /\ twin = NoTwin

CallTakeDamage ==
    /\ pc = "call"
    /\ \E amount \in 0..MaxDamage :
           /\ player' = PlayerTakeDamage(player, amount)
           /\ obs' = [op |-> "take_damage", amount |-> amount,
                      shield |-> player.irrigation_shield,
                      health |-> player.health]
    /\ pc' = "returned"
    /\ UNCHANGED <<enemy, gameVars, konami_manager, hist, twin>>

NextShield == CallTakeDamage

SpecShield == InitShield /\ [][NextShield]_vars

TookDamageWithShield ==
    /\ pc = "returned"
    /\ obs.op = "take_damage"
    /\ obs.shield > 0

\* C2 as stated: with shield S > 0 and damage D >= 0 the shield becomes
\* max(0, S - D) and the HP lost is max(0, D - S), whatever the current HP.
C2_ShieldAbsorptionAsStated ==
    TookDamageWithShield =>
        /\ player.irrigation_shield = Max(0, obs.shield - obs.amount)
        /\ obs.health - player.health = Max(0, obs.amount - obs.shield)

\* C2, amended: with shield S > 0 and damage D >= 0 the shield becomes
\* max(0, S - D) and the HP lost is max(0, D - S), but never more than the HP the
\* player had (health is floored at 0).
C2_ShieldAbsorption ==
    TookDamageWithShield =>
        /\ player.irrigation_shield = Max(0, obs.shield - obs.amount)
        /\ obs.health - player.health =
               Min(obs.health, Max(0, obs.amount - obs.shield))

\* A hit larger than the shield on a player with enough HP: the shield is used up
\* and the rest is lost from the HP.
C2_Witness ==
    /\ TookDamageWithShield
    /\ obs.amount > obs.shield
    /\ player.irrigation_shield = 0
    /\ player.health = obs.health - (obs.amount - obs.shield)
    /\ player.health > 0

---------------------------------------------------------------------------
(* KonamiManager: the secret-code tracker *)

\* The raw strings the tracker is fed in this model, and str.lower().strip() of each.
RawTokens ==
    {"up", "down", "left", "right", "b", "a", "UP", " a ", "B", "x", "", "  "}

LowerStrip(raw) ==
    CASE raw = "UP" -> "up"
      [] raw = " a " -> "a"
      [] raw = "B" -> "b"
      [] raw = "A" -> "a"
      [] raw = "  " -> ""
      [] OTHER -> raw

IsPrefixOf(s, t) == Len(s) <= Len(t) /\ SubSeq(t, 1, Len(s)) = s

\* unlimited or uses left, and not locked: the test both interfaces make.
MayMatch(k) ==
    LET unlimited == k.max_uses <= 0
    IN  ~k.locked /\ (unlimited \/ k.uses < k.max_uses)

\* What a successful match does to the counters.
ConsumeUse(k) ==
    LET unlimited == k.max_uses <= 0
        uses == k.uses + 1
    IN  [k EXCEPT !.uses = uses,
                  !.locked = IF ~unlimited /\ uses >= k.max_uses THEN TRUE ELSE @]

\* KonamiManager.push(value); hint is the outcome of rng.random() < 0.15.
\* The result is "success" (True), "failure" (False) or "hint" (KonamiHint raised).
PushWithoutCap(k, raw, hint) ==
    LET value == LowerStrip(raw)
        appended == Append(k.buffer, value)
        buffer == IF Len(appended) > Len(KONAMI_SEQUENCE) THEN Tail(appended)
                  ELSE appended
    IN  IF value = "" THEN [k |-> k, result |-> "failure"]
        ELSE IF buffer = KONAMI_SEQUENCE
        THEN [k |-> [k EXCEPT !.buffer = <<>>, !.uses = @ + 1],
              result |-> "success"]
        ELSE [k |-> [k EXCEPT !.buffer = buffer], result |-> "failure"]

PushWithoutRolling(k, raw, hint) ==
    LET value == LowerStrip(raw)
        buffer == Append(k.buffer, value)
        kb == [k EXCEPT !.buffer = buffer]
    IN  IF value = "" THEN [k |-> k, result |-> "failure"]
        ELSE IF buffer = KONAMI_SEQUENCE /\ MayMatch(kb)
        THEN [k |-> ConsumeUse([kb EXCEPT !.buffer = <<>>]), result |-> "success"]
        ELSE IF ~IsPrefixOf(buffer, KONAMI_SEQUENCE) /\ hint
        THEN [k |-> kb, result |-> "hint"]
        ELSE [k |-> kb, result |-> "failure"]

push(k, raw, hint) ==
    LET value == LowerStrip(raw)
        appended == Append(k.buffer, value)
        buffer == IF Len(appended) > Len(KONAMI_SEQUENCE) THEN Tail(appended)
                  ELSE appended
        kb == [k EXCEPT !.buffer = buffer]
    IN  IF value = "" THEN [k |-> k, result |-> "failure"]
        ELSE IF buffer = KONAMI_SEQUENCE /\ MayMatch(kb)
        THEN [k |-> ConsumeUse([kb EXCEPT !.buffer = <<>>]), result |-> "success"]
        ELSE IF ~IsPrefixOf(buffer, KONAMI_SEQUENCE) /\ hint
        THEN [k |-> kb, result |-> "hint"]
        ELSE [k |-> kb, result |-> "failure"]

\* KonamiManager.check_sequence(inputs)
check_sequence(k, inputs) ==
    LET tokens == [i \in 1..Len(inputs) |-> LowerStrip(inputs[i])]
    IN  IF tokens = KONAMI_SEQUENCE /\ MayMatch(k)
        THEN [k |-> ConsumeUse(k), result |-> "success"]
        ELSE [k |-> k, result |-> "failure"]

\* KonamiManager.unlocks_remaining
unlocks_remaining(k) ==
    IF k.max_uses <= 0 THEN 999999 ELSE Max(0, k.max_uses - k.uses)

---------------------------------------------------------------------------
(* Any interleaving of push and check_sequence on a tracker with a usage cap *)

MaxUses == 1

\* Matches explored on one tracker (an unlimited tracker would match for ever).
MaxMatches == 2

\* Tokens that break the sequence, pushed to one tracker.
MaxJunk == 2

\* The length of the longest proper start of the sequence the buffer ends with:
\* how far a player who is typing the sequence has come.
Typed(buffer) ==
    LET fits == {n \in 0..Min(Len(buffer), Len(KONAMI_SEQUENCE) - 1) :
                    SubSeq(buffer, Len(buffer) - n + 1, Len(buffer))
                        = SubSeq(KONAMI_SEQUENCE, 1, n)}
    IN  CHOOSE n \in fits : \A o \in fits : o <= n

\* The next token of the sequence, for a player who is typing it.
NextToken(buffer) == KONAMI_SEQUENCE[Typed(buffer) + 1]

\* Junk tokens pushed to a tracker whose raw tokens are kept.
MaxTypedJunk == 1

\* The raw strings a push is tried with: the next token of the sequence, a token
\* that breaks the sequence (junk of them at most), or an empty one.  The
\* spelling is any the model has, or, where the raw tokens are kept, one for
\* the whole run: plain, or capitals and spaces.
PushInputs(buffer, junk, typing) ==
    {raw \in RawTokens :
        /\ \/ LowerStrip(raw) = NextToken(buffer)
           \/ /\ raw \in {"x", "up", "UP"}
              /\ junk < (IF typing = "any" THEN MaxJunk ELSE MaxTypedJunk)
           \/ raw \in {"", "  "}
        /\ CASE typing = "plain" -> raw = LowerStrip(raw) \/ raw = "  "
             [] typing = "capitals" -> raw \notin {"up", "b", "a"}
             [] OTHER -> raw # "UP" \/ LowerStrip(raw) = NextToken(buffer)}

\* The token lists check_sequence is tried with.
UpperFirst == [KONAMI_SEQUENCE EXCEPT ![1] = "UP", ![9] = "B", ![10] = " a "]

SequenceInputs ==
    {KONAMI_SEQUENCE, UpperFirst,
     [KONAMI_SEQUENCE EXCEPT ![10] = "b"],
     SubSeq(KONAMI_SEQUENCE, 1, 9),
     Append(KONAMI_SEQUENCE, "a"),
     [KONAMI_SEQUENCE EXCEPT ![3] = ""],
     <<>>}

InitKonami ==
    /\ \E n \in 0..MaxUses : konami_manager = NewKonamiManager(n)
    /\ obs = [op |-> "none", exact |-> FALSE, result |-> "none",
              uses |-> 0, matches |-> 0, junk |-> 0, typing |-> "any",
              raw |-> "", may |-> FALSE, last |-> <<>>, raws |-> <<>>]
    /\ player = NewPlayer
    /\ enemy = NoEnemy
    /\ wave = 1
    /\ turn_count = 0
    /\ endless_mode = FALSE
    /\ stop_requested = FALSE
    /\ used_events = {}
    /\ current_area = "none"
    /\ pc = "konami"
    /\ hist = NoHist
    /\ twin = NoTwin

\* obs keeps of the calls: the spelling of the one who types (typing) and, unless
\* that is any spelling, the raw token of a push (raw), whether a match was
\* allowed before the call (may), the raw tokens that were not blank pushed
\* since the last push that succeeded, the last ten of them (raws), and the same
\* with the token of this push, before a success empties it (last).
KonamiPush ==
    /\ pc = "konami"
    /\ obs.matches < MaxMatches
    /\ \E raw \in PushInputs(konami_manager.buffer, obs.junk, obs.typing),
          hint \in BOOLEAN :
           LET r == push(konami_manager, raw, hint)
               fed == Append(konami_manager.buffer, LowerStrip(raw))
               pushed == Append(obs.raws, raw)
               last == IF obs.typing = "any" THEN <<>>
                       ELSE IF LowerStrip(raw) = "" THEN obs.raws
                       ELSE IF Len(pushed) > Len(KONAMI_SEQUENCE)
                       THEN Tail(pushed)
                       ELSE pushed
           IN  /\ konami_manager' = r.k
               /\ obs' = [op |-> "push",
                          exact |-> /\ LowerStrip(raw) # ""
                                    /\ Len(fed) >= Len(KONAMI_SEQUENCE)
                                    /\ SubSeq(fed, Len(fed) - 9, Len(fed))
                                           = KONAMI_SEQUENCE,
                          result |-> r.result,
                          uses |-> konami_manager.uses,
                          matches |-> obs.matches
                                      + (IF r.result = "success" THEN 1 ELSE 0),
                          junk |-> obs.junk
                                   + (IF LowerStrip(raw) \notin
                                            {NextToken(konami_manager.buffer), ""}
                                      THEN 1 ELSE 0),
                          typing |-> obs.typing,
                          raw |-> IF obs.typing = "any" THEN "" ELSE raw,
                          may |-> MayMatch(konami_manager),
                          last |-> last,
                          raws |-> IF r.result = "success" THEN <<>> ELSE last]
    /\ UNCHANGED <<player, enemy, gameVars, pc, hist, twin>>

KonamiCheckSequence ==
    /\ pc = "konami"
    /\ obs.matches < MaxMatches
    /\ \E inputs \in SequenceInputs :
           LET r == check_sequence(konami_manager, inputs)
           IN  /\ konami_manager' = r.k
               /\ obs' = [op |-> "check_sequence",
                          exact |-> inputs \in {KONAMI_SEQUENCE, UpperFirst},
                          result |-> r.result,
                          uses |-> konami_manager.uses,
                          matches |-> obs.matches
                                      + (IF r.result = "success" THEN 1 ELSE 0),
                          junk |-> obs.junk, typing |-> obs.typing,
                          raw |-> "", may |-> MayMatch(konami_manager),
                          last |-> <<>>, raws |-> obs.raws]
    /\ UNCHANGED <<player, enemy, gameVars, pc, hist, twin>>

NextKonami == KonamiPush \/ KonamiCheckSequence

SpecKonami == InitKonami /\ [][NextKonami]_vars

\* C9: with max_uses = N > 0 the successful matches over any interleaving of push
\* and check_sequence number at most N, uses <= N, the tracker is locked exactly
\* when uses = N, an exact submission succeeds while uses are left and fails by
\* either interface once they are used up; with max_uses = 0 it never locks and
\* every exact submission succeeds.
C9_UsageCap ==
    LET k == konami_manager
        N == k.max_uses
    IN  /\ obs.matches = k.uses
        /\ N > 0 =>
              /\ obs.matches <= N
              /\ k.uses <= N
              /\ k.locked <=> k.uses = N
              /\ obs.exact /\ obs.uses >= N => obs.result = "failure"
              /\ obs.exact /\ obs.uses < N => obs.result = "success"
        /\ N = 0 =>
              /\ ~k.locked
              /\ obs.exact => obs.result = "success"

\* Scenario C: max_uses = 1, the sequence pushed once with success, and pushed
\* again, token by token, to a failure on the locked tracker.
C9_Witness ==
    /\ konami_manager.max_uses = 1
    /\ konami_manager.uses = 1
    /\ konami_manager.locked
    /\ obs.op = "push"
    /\ obs.exact
    /\ obs.uses = 1
    /\ obs.result = "failure"

---------------------------------------------------------------------------
(* The shop *)

ShopInputs == {"1", "2", "3", "4", "5", "6", "", "7"}

\* What seq.split() can give in answer to the sequence prompt: the sequence, the
\* sequence in capitals, one with a wrong last token, one token short, nothing.
ShopSequences ==
    {KONAMI_SEQUENCE,
     [KONAMI_SEQUENCE EXCEPT ![1] = "UP", ![10] = "A"],
     [KONAMI_SEQUENCE EXCEPT ![10] = "b"],
     SubSeq(KONAMI_SEQUENCE, 1, 9),
     <<>>}

\* The prices of Game._open_shop, story and endless
TonicCost(endless) == IF endless THEN 10 ELSE 8
AttackTonicCost(endless) == IF endless THEN 12 ELSE 6
GoldItemCost(endless) == IF endless THEN 15 ELSE 10
GoldItemGain(endless) == IF endless THEN 2 ELSE 1
SeedCost(endless) == IF endless THEN 2 ELSE 1

\* Shop choice 3 with the "not enough coins" test dropped.
BuyGoldOnCredit(p, endless) ==
    [p |-> [p EXCEPT !.coins = Max(0, @ - GoldItemCost(endless)),
                     !.gold = @ + GoldItemGain(endless)],
     result |-> "bought"]

\* Game._open_shop, choice 3 (lines 838-854): coins to gold
buy_gold(p, endless) ==
    IF p.coins >= GoldItemCost(endless)
    THEN [p |-> [p EXCEPT !.coins = @ - GoldItemCost(endless),
                          !.gold = @ + GoldItemGain(endless)],
          result |-> "bought"]
    ELSE [p |-> p, result |-> "refused"]

\* Shop choice 1 without the test for a tonic still in effect.
RefillTonic(p, endless) ==
    IF p.coins >= TonicCost(endless)
    THEN [p |-> [p EXCEPT !.coins = @ - TonicCost(endless),
                          !.tonic_turns = IF endless THEN 2 ELSE 3,
                          !.tonic_reduction = IF endless THEN 45 ELSE 30],
          result |-> "bought"]
    ELSE [p |-> p, result |-> "refused"]

\* Game._open_shop, choice 1 (lines 803-823): the damage tonic
buy_tonic(p, endless) ==
    IF p.tonic_turns > 0 THEN [p |-> p, result |-> "in_effect"]
    ELSE IF p.coins >= TonicCost(endless)
    THEN [p |-> [p EXCEPT !.coins = @ - TonicCost(endless),
                          !.tonic_turns = IF endless THEN 2 ELSE 3,
                          !.tonic_reduction = IF endless THEN 45 ELSE 30],
          result |-> "bought"]
    ELSE [p |-> p, result |-> "refused"]

\* Shop choice 2 with the "not enough coins" test dropped.
BuyAttackOnCredit(p, endless) ==
    LET buff == IF endless THEN 20 ELSE 12
    IN  [p |-> [p EXCEPT !.coins = @ - AttackTonicCost(endless),
                         !.attack_power = @ + buff,
                         !.temp_attack_bonus = @ + buff],
         result |-> "bought"]

\* Game._open_shop, choice 2 (lines 824-837): attack for this wave
buy_attack(p, endless) ==
    LET buff == IF endless THEN 20 ELSE 12
    IN  IF p.coins >= AttackTonicCost(endless)
        THEN [p |-> [p EXCEPT !.coins = @ - AttackTonicCost(endless),
                              !.attack_power = @ + buff,
                              !.temp_attack_bonus = @ + buff],
              result |-> "bought"]
        ELSE [p |-> p, result |-> "refused"]

\* Game._open_shop, choice 4 (lines 855-882): the seed bought with gold
buy_seed(p, endless) ==
    LET atk == IF endless THEN 8 ELSE 3
        hp == IF endless THEN 20 ELSE 10
    IN  IF p.gold >= SeedCost(endless)
        THEN [p |-> [p EXCEPT !.gold = @ - SeedCost(endless),
                              !.attack_power = @ + atk,
                              !.max_hp = @ + hp,
                              !.health = Min(p.health + hp, p.max_hp + hp)],
              result |-> "bought"]
        ELSE [p |-> [p EXCEPT !.gold_tip_shown = TRUE], result |-> "refused"]

\* The activation that takes the price when it fails as well.
ActivationAlwaysCharged(p, k, endless, tokens, breaks, pick) ==
    LET cost == konami_activation_cost(p, IF endless THEN 1 ELSE 0)
        checked == check_sequence(k, tokens)
        atk_buff == Max(1, IntPct(p.attack_power, 3000))
        hp_buff == Max(1, IntPct(p.max_hp, 3000))
        charged == [p EXCEPT !.gold = @ - cost.gold, !.coins = @ - cost.coins]
    IN  IF p.konami_fragments <= 0
        THEN [p |-> p, k |-> k, result |-> "no_fragment"]
        ELSE IF p.gold < cost.gold \/ p.coins < cost.coins
        THEN [p |-> [p EXCEPT !.gold_tip_shown = TRUE], k |-> k,
              result |-> "refused"]
        ELSE IF checked.result = "success"
        THEN [p |-> add_new_skill(
                        [charged EXCEPT !.konami_fragments = @ - 1,
                                        !.konami_purchase_count = @ + 1,
                                        !.attack_power = @ + atk_buff,
                                        !.max_hp = @ + hp_buff,
                                        !.health = @ + hp_buff],
                        pick),
              k |-> checked.k, result |-> "activated"]
        ELSE [p |-> IF breaks
                    THEN [charged EXCEPT !.konami_fragments = Max(0, @ - 1)]
                    ELSE charged,
              k |-> checked.k,
              result |-> IF breaks THEN "broken" ELSE "fizzled"]

\* The activation with the buff of max HP not given to the HP.
ActivateWithoutHealth(p, k, endless, tokens, breaks, pick) ==
    LET cost == konami_activation_cost(p, IF endless THEN 1 ELSE 0)
        checked == check_sequence(k, tokens)
        atk_buff == Max(1, IntPct(p.attack_power, 3000))
        hp_buff == Max(1, IntPct(p.max_hp, 3000))
    IN  IF p.konami_fragments <= 0
        THEN [p |-> p, k |-> k, result |-> "no_fragment"]
        ELSE IF p.gold < cost.gold \/ p.coins < cost.coins
        THEN [p |-> [p EXCEPT !.gold_tip_shown = TRUE], k |-> k,
              result |-> "refused"]
        ELSE IF checked.result = "success"
        THEN [p |-> add_new_skill(
                        [p EXCEPT !.konami_fragments = @ - 1,
                                  !.gold = @ - cost.gold,
                                  !.coins = @ - cost.coins,
                                  !.konami_purchase_count = @ + 1,
                                  !.attack_power = @ + atk_buff,
                                  !.max_hp = @ + hp_buff],
                        pick),
              k |-> checked.k, result |-> "activated"]
        ELSE [p |-> IF breaks
                    THEN [p EXCEPT !.konami_fragments = Max(0, @ - 1)]
                    ELSE p,
              k |-> checked.k,
              result |-> IF breaks THEN "broken" ELSE "fizzled"]

\* Game._open_shop, choice 5 (lines 883-918): the activation of a fragment.  tokens
\* answer the sequence prompt, breaks is the outcome of rng.random() < 0.25 after a
\* failure, pick the skill add_new_skill comes to.
activate_fragment(p, k, endless, tokens, breaks, pick) ==
    LET cost == konami_activation_cost(p, IF endless THEN 1 ELSE 0)
        checked == check_sequence(k, tokens)
        atk_buff == Max(1, IntPct(p.attack_power, 3000))
        hp_buff == Max(1, IntPct(p.max_hp, 3000))
    IN  IF p.konami_fragments <= 0
        THEN [p |-> p, k |-> k, result |-> "no_fragment"]
        ELSE IF p.gold < cost.gold \/ p.coins < cost.coins
        THEN [p |-> [p EXCEPT !.gold_tip_shown = TRUE], k |-> k,
              result |-> "refused"]
        ELSE IF checked.result = "success"
        THEN [p |-> add_new_skill(
                        [p EXCEPT !.konami_fragments = @ - 1,
                                  !.gold = @ - cost.gold,
                                  !.coins = @ - cost.coins,
                                  !.konami_purchase_count = @ + 1,
                                  !.attack_power = @ + atk_buff,
                                  !.max_hp = @ + hp_buff,
                                  !.health = @ + hp_buff],
                        pick),
              k |-> checked.k, result |-> "activated"]
        ELSE [p |-> IF breaks
                    THEN [p EXCEPT !.konami_fragments = Max(0, @ - 1)]
                    ELSE p,
              k |-> checked.k,
              result |-> IF breaks THEN "broken" ELSE "fizzled"]

\* The tip written at every refusal for want of gold.
TipAtEveryRefusal(p, choice, result) ==
    choice \in {"4", "5"} /\ result = "refused"

\* Game._open_shop, lines 866-868, 880-882 and 888-890: whether the round writes
\* the tip of the gold pouch
ShowsGoldTip(p, choice, result) ==
    choice \in {"4", "5"} /\ result = "refused" /\ ~p.gold_tip_shown

\* Whether choice 5 comes to the sequence prompt
AsksSequence(p, endless) ==
    LET cost == konami_activation_cost(p, IF endless THEN 1 ELSE 0)
    IN  p.konami_fragments > 0 /\ p.gold >= cost.gold /\ p.coins >= cost.coins

\* One round of the loop of Game._open_shop: choice is the stripped answer.
open_shop(p, k, endless, choice, tokens, breaks, pick) ==
    LET same(r) == [p |-> r.p, k |-> k, result |-> r.result]
    IN  CASE choice = "1" -> same(buy_tonic(p, endless))
          [] choice = "2" -> same(buy_attack(p, endless))
          [] choice = "3" -> same(buy_gold(p, endless))
          [] choice = "4" -> same(buy_seed(p, endless))
          [] choice = "5" -> activate_fragment(p, k, endless, tokens, breaks, pick)
          [] choice = "6" -> [p |-> p, k |-> k, result |-> "left"]
          [] OTHER -> [p |-> p, k |-> k, result |-> "invalid"]

---------------------------------------------------------------------------
(* A session: Game.start from the creation of the player, and Game._play_wave *)

\* Game.start, lines 505-508: the player is created and given two coins
NewSessionPlayer == [NewPlayer EXCEPT !.coins = 2]

EndlessAnswers == {"y", "YES", " yes ", "n", "", "maybe"}

\* Game._prompt_endless_mode: (answer or "n").strip().lower() in ("y", "yes")
AcceptsEndless(answer) == answer \in {"y", "Y", "yes", "YES", " yes ", " y"}

\* Game._play_wave, line 531: the wave starts with the endless prompt
PromptsInEndlessToo == wave > STORY_END_WAVE

NeedsEndlessPrompt == ~endless_mode /\ wave > STORY_END_WAVE

\* Game._play_wave, lines 531-536, and the return to Game.start when the player
\* declines (lines 513-514 and 523-524).
PromptEndless(x) ==
    /\ pc = "play_wave"
    /\ NeedsEndlessPrompt
    /\ \E answer \in x.answers :
           /\ IF AcceptsEndless(answer)
              THEN /\ endless_mode' = TRUE
                   /\ stop_requested' = stop_requested
                   /\ pc' = "enter"
              ELSE /\ stop_requested' = TRUE
                   /\ endless_mode' = endless_mode
                   /\ pc' = "done"
           /\ obs' = [op |-> "endless_prompt", answer |-> answer]
    /\ hist' = [hist EXCEPT !.prompts = @ + 1]
    /\ UNCHANGED <<player, enemy, wave, turn_count, konami_manager,
                   used_events, current_area>>

\* Game._play_wave, lines 560-565: the fragments corrode
FragmentsNeverCorrode(p) == p

DecayOneWaveLate(p) ==
    IF p.konami_fragments > 0
    THEN IF p.konami_fragment_rounds_left - 1 < 0
         THEN [p EXCEPT !.konami_fragments = 0,
                        !.konami_fragment_rounds_left = 0]
         ELSE [p EXCEPT !.konami_fragment_rounds_left = @ - 1]
    ELSE p

fragment_decay(p) ==
    IF p.konami_fragments > 0
    THEN IF p.konami_fragment_rounds_left - 1 <= 0
         THEN [p EXCEPT !.konami_fragments = 0,
                        !.konami_fragment_rounds_left = 0]
         ELSE [p EXCEPT !.konami_fragment_rounds_left = @ - 1]
    ELSE p

\* Game._play_wave, lines 568-570: the attack bought for the wave is given back
ForgetTempBonus(p) == [p EXCEPT !.temp_attack_bonus = 0]

strip_temp_bonus(p) ==
    IF p.temp_attack_bonus > 0
    THEN [p EXCEPT !.attack_power = Max(0, @ - p.temp_attack_bonus),
                   !.temp_attack_bonus = 0]
    ELSE p

\* Game._play_wave, lines 537-565 up to the first prompt of the shop or of the
\* battle: the area, the enemy, the story beat and the random event; on a wave
\* without shop the fragments corrode and Game._battle sets the turn counter.
\* x.decisions are the answers at wave 25 explored; the rest of x as in
\* trigger_random_event.
start_wave(p, used, w, endless, decision, pick, x) ==
    LET told == story_beat(p, w, decision, pick)
        met == IF EventWave(w)
               THEN trigger_random_event(told, used, w, endless, x)
               ELSE {[p |-> told, used |-> used, fired |-> <<>>,
                      crashed |-> FALSE]}
    IN  {[o EXCEPT !.p = IF ~o.crashed /\ w % 2 # 0
                         THEN fragment_decay(o.p) ELSE o.p] : o \in met}

StartWave(x) ==
    /\ \/ pc = "enter"
       \/ pc = "play_wave" /\ ~NeedsEndlessPrompt
    /\ current_area' = enter_area_if_needed(current_area, wave)
    /\ enemy' = SpawnEnemy(wave, endless_mode)
    /\ \E decision \in (IF wave = 25 THEN x.decisions ELSE {""}) :
       \E pick \in (IF wave = 15 THEN SkillPicks(player, x.picks)
                    ELSE {"none"}) :
       \E o \in start_wave(player, used_events, wave, endless_mode, decision,
                           pick, x) :
           /\ player' = o.p
           /\ used_events' = o.used
           /\ obs' = [op |-> "start_wave", decision |-> decision,
                      fired |-> o.fired]
           /\ pc' = IF o.crashed THEN "crashed"
                    ELSE IF wave % 2 = 0 THEN "shop"
                    ELSE "battle"
           /\ turn_count' = IF ~o.crashed /\ wave % 2 # 0 THEN 0
                            ELSE turn_count
    /\ UNCHANGED <<wave, endless_mode, stop_requested, konami_manager, hist>>

\* One round of the loop of Game._open_shop (lines 786-924); on leaving, lines
\* 560-565 of Game._play_wave and the first line of Game._battle.  x.shop are
\* the answers explored, x.sequences the answers to the sequence prompt.
ShopRound(x) ==
    /\ pc = "shop"
    /\ \E choice \in x.shop :
       \E tokens \in (IF choice = "5" /\ AsksSequence(player, endless_mode)
                      THEN x.sequences ELSE {<<>>}) :
       \E breaks \in (IF choice = "5" /\ AsksSequence(player, endless_mode)
                         /\ check_sequence(konami_manager, tokens).result
                                # "success"
                      THEN BOOLEAN ELSE {FALSE}) :
       \E pick \in (IF choice = "5" /\ AsksSequence(player, endless_mode)
                       /\ check_sequence(konami_manager, tokens).result
                              = "success"
                    THEN SkillPicks(player, x.picks) ELSE {"none"}) :
           LET r == open_shop(player, konami_manager, endless_mode, choice,
                              tokens, breaks, pick)
           IN  /\ konami_manager' = r.k
               /\ obs' = [op |-> "shop", choice |-> choice, result |-> r.result,
                          tokens |-> tokens,
                          tip |-> ShowsGoldTip(player, choice, r.result)]
               /\ IF r.result = "left"
                  THEN /\ player' = fragment_decay(r.p)
                       /\ pc' = "battle"
                       /\ turn_count' = 0
                  ELSE /\ player' = r.p
                       /\ pc' = "shop"
                       /\ turn_count' = turn_count
    /\ UNCHANGED <<enemy, wave, endless_mode, stop_requested, used_events,
                   current_area, hist>>

\* The player after the battle: Game._play_wave, lines 568-570, and Game.start,
\* lines 515-517.
end_wave(p) ==
    IF is_alive(p) THEN wave_clear_upgrade(strip_temp_bonus(p))
    ELSE strip_temp_bonus(p)

\* Game._play_wave, lines 568-570, and the rest of the loop of Game.start, lines
\* 513-518 and 511: the battle is over; a player who fell ends the session, the
\* others are upgraded and go to the next wave.  Waves up to x.waves are
\* explored.
EndWave(x) ==
    /\ pc = "battle"
    /\ ~(is_alive(player) /\ is_alive(enemy))
    /\ is_alive(player) => wave < x.waves
    /\ player' = end_wave(player)
    /\ IF is_alive(player)
       THEN wave' = wave + 1 /\ pc' = "play_wave"
       ELSE wave' = wave /\ pc' = "done"
    /\ obs' = [op |-> "end_wave", stripped |-> player.temp_attack_bonus]
    /\ UNCHANGED <<enemy, turn_count, endless_mode, stop_requested,
                   konami_manager, used_events, current_area, hist>>

\* The players explored
Plans ==
    {"attacker", "shopper", "caster", "healer", "booster", "fumbler", "brewer",
     "trader"}

\* The state after line 508 of Game.start
InitSession ==
    /\ player = NewSessionPlayer
    /\ enemy = NoEnemy
    /\ NewGame
    /\ pc = "play_wave"
    /\ obs = NoObs
    /\ hist \in {NewHist(plan) : plan \in Plans}
    /\ twin = NoTwin

---------------------------------------------------------------------------
(* The story and the first endless waves, the player always attacking and
   leaving the shop at once *)

\* The players explored.  Every one answers the prompts within the sets below;
\* the attacker always attacks and leaves the shop at once, through the story
\* into endless mode.
MaxWave == 27

Attacker ==
    [choices |-> {"1"}, raws |-> {""}, prolls |-> "ends", erolls |-> "ends",
     shop |-> {"6", ""}, sequences |-> ShopSequences,
     answers |-> EndlessAnswers, decisions |-> StoryDecisions,
     events |-> "first", extras |-> "first", gimmicks |-> BOOLEAN,
     passives |-> BOOLEAN, draws |-> {}, picks |-> FALSE, chains |-> {FALSE},
     waves |-> MaxWave]

\* The shopper attacks with lucky rolls and buys gold, seeds and activations.
MaxShopperWave == 11

Shopper ==
    [Attacker EXCEPT !.prolls = "high", !.erolls = "low",
                     !.shop = {"3", "4", "5", "6"},
                     !.waves = MaxShopperWave]

\* The caster attacks with lucky rolls and uses whatever skill the merchant of
\* wave 3 gives.
MaxCasterWave == 6

Caster ==
    [Attacker EXCEPT !.prolls = "high", !.erolls = "low",
                     !.choices = {"1", "3"},
                     !.raws = {"1", "corn"},
                     !.picks = TRUE,
                     !.waves = MaxCasterWave]

\* The healer attacks, heals or idles, with lucky rolls, in the first waves.
MaxHealerWave == 2

Healer ==
    [Attacker EXCEPT !.prolls = "high", !.erolls = "low",
                     !.choices = {"1", "2", ""},
                     !.waves = MaxHealerWave]

\* The booster attacks with lucky rolls, meets any event of the pool and asks
\* for the damage tonic and for attack for the wave, with or without the coins.
MaxBoosterWave == 7

Booster ==
    [Attacker EXCEPT !.prolls = "high", !.erolls = "low",
                     !.shop = {"1", "2", "6"},
                     !.events = "any", !.extras = "any",
                     !.waves = MaxBoosterWave]

\* The fumbler attacks with lucky rolls or answers the prompts of the turn
\* wrongly, before and after the merchant of wave 3 gives a skill.
MaxFumblerWave == 3

Fumbler ==
    [Attacker EXCEPT !.prolls = "high", !.erolls = "low",
                     !.choices = {"1", "3", "4", ""},
                     !.raws = {"1", "2", "0", "corn", ""},
                     !.waves = MaxFumblerWave]

\* The brewer attacks with lucky rolls and asks for the damage tonic in every
\* shop, once or more; the triggers of its waves may chain one of the last six
\* events of the pool.
MaxBrewerWave == 12

Brewer ==
    [Attacker EXCEPT !.prolls = "high", !.erolls = "low",
                     !.shop = {"1", "6"},
                     !.extras = "late",
                     !.chains = BOOLEAN,
                     !.passives = {FALSE},
                     !.waves = MaxBrewerWave]

\* The trader is a lucky attacker who asks for seeds without gold and meets
\* the merchant again as the extra event of a chain.
MaxTraderWave == 7

Trader ==
    [Attacker EXCEPT !.prolls = "high", !.erolls = "low",
                     !.shop = {"4", "6"},
                     !.draws = {"Mysterious Merchant"},
                     !.chains = BOOLEAN,
                     !.passives = {FALSE},
                     !.waves = MaxTraderWave]

\* The staller holds the skill of the merchant and never attacks: at every turn
\* it heals, uses the skill or idles, and the enemy rolls its lowest damage.
\* Holding Fortify Fence, which is ready at every turn, it never idles.
MaxStallerWave == 3

Staller ==
    [Attacker EXCEPT !.choices = IF "Fortify Fence" \in SeqToSet(player.skills)
                                    THEN {"2", "3"}
                                    ELSE {"2", "3", ""},
                     !.raws = {"1"},
                     !.erolls = "low",
                     !.shop = {"6"},
                     !.passives = {FALSE},
                     !.waves = MaxStallerWave]

\* The wanderer is a lucky attacker who meets the random events of the first
\* thirty waves: every trigger takes the first candidate not yet used and, when
\* it chains, one of the last six of the pool as the extra.
MaxEventWave == 30

EventInputs ==
    [Attacker EXCEPT !.prolls = "high", !.erolls = "low",
                     !.shop = {"6"},
                     !.answers = {"y"},
                     !.decisions = {"2"},
                     !.extras = "late",
                     !.draws = {"Mysterious Merchant"},
                     !.chains = BOOLEAN,
                     !.gimmicks = {FALSE},
                     !.passives = {FALSE},
                     !.waves = MaxEventWave]

\* The player of a session that may be interrupted at any prompt.
MaxAbortWave == 3

AbortInputs ==
    [Attacker EXCEPT !.choices = {"1", "3"}, !.shop = {"2", "6"},
                     !.waves = MaxAbortWave]

\* The activator asks for the activation of a fragment, or leaves the shop; the
\* shuffle of add_new_skill may bring any skill not owned.
Activator == [Attacker EXCEPT !.shop = {"5", "6"}, !.picks = TRUE]

\* The survivor ends the story and fights on in endless mode, attacking or
\* healing, with the best or the worst rolls against the weakest hits, and asks
\* for the damage tonic in the shops.
MaxSurvivorWave == 27

Survivor ==
    [Attacker EXCEPT !.choices = {"1", "2"},
                     !.prolls = "ends", !.erolls = "low",
                     !.shop = {"1", "6"},
                     !.passives = {FALSE},
                     !.waves = MaxSurvivorWave]

Inputs ==
    CASE hist.plan = "shopper" -> Shopper
      [] hist.plan = "survivor" -> Survivor
      [] hist.plan = "activator" -> Activator
      [] hist.plan = "trader" -> Trader
      [] hist.plan = "staller" -> Staller
      [] hist.plan = "wanderer" -> EventInputs
      [] hist.plan = "abort" -> AbortInputs
      [] hist.plan = "brewer" -> Brewer
      [] hist.plan = "fumbler" -> Fumbler
      [] hist.plan = "caster" -> Caster
      [] hist.plan = "healer" -> Healer
      [] hist.plan = "booster" -> Booster
      [] OTHER -> Attacker

Prompted == PromptEndless(Inputs) /\ UNCHANGED twin

WaveStarted == StartWave(Inputs) /\ UNCHANGED twin

ShopVisited == ShopRound(Inputs) /\ UNCHANGED twin

TurnStarted == BattleTurnStart /\ UNCHANGED twin

TurnPlayed == BattleTurn(Inputs) /\ UNCHANGED twin

WaveEnded == EndWave(Inputs) /\ UNCHANGED twin

Next ==
    \/ Prompted
    \/ WaveStarted
    \/ ShopVisited
    \/ TurnStarted
    \/ TurnPlayed
    \/ WaveEnded

Spec == InitSession /\ [][Next]_vars

---------------------------------------------------------------------------
(* Health stays within bounds *)

HealthInBounds(f) == 0 <= f.health /\ f.health <= f.max_hp

\* C1: in every reachable state of a session the player's health and the
\* enemy's health lie between 0 and their max HP, whatever skills, purchases,
\* activations, events, story boosts, upgrades and endless bonuses came before.
C1_HealthWithinBounds ==
    /\ HealthInBounds(player)
    /\ HealthInBounds(enemy)

\* The shopper has planted a seed and activated a fragment, and has just brought
\* down the boss of wave 10.
C1_Witness ==
    /\ hist.plan = "shopper"
    /\ wave = 10
    /\ pc = "battle"
    /\ enemy.kind = "Boss"
    /\ enemy.health = 0
    /\ player.konami_purchase_count = 1
    /\ player.health > 0
    /\ player.health < player.max_hp

---------------------------------------------------------------------------
(* Cooldowns *)

\* C3: a skill with cooldown 3, 4 or 5 that was used before is refused as long as
\* fewer cooldown ticks than its cooldown have passed since that use, whichever
\* battles the ticks fell in, and is used again once that many have passed.
C3_CooldownCountsTicks ==
    (/\ obs.op = "turn"
     /\ obs.choice = "3"
     /\ obs.skill # "none"
     /\ obs.since >= 0
     /\ SkillCooldown(obs.skill) \in {3, 4, 5})
    => /\ obs.since < SkillCooldown(obs.skill) => obs.result = "on_cooldown"
       /\ obs.since >= SkillCooldown(obs.skill) => obs.result = "used"

\* Rain Dance, used in an earlier battle, is used again in the second turn of
\* this one, right after its fifth tick.
C3_Witness ==
    /\ obs.op = "turn"
    /\ obs.skill = "Rain Dance"
    /\ obs.result = "used"
    /\ obs.since = 5
    /\ turn_count = 2

---------------------------------------------------------------------------
(* Boss passives *)

\* C4: the player holds between 0 and 3 stacks of every passive.
C4_PassiveStacksCapped ==
    \A name \in PassiveNames : player.passives[name] \in 0..3

\* The boss of wave 20 falls to a player who holds three stacks.
C4_Witness ==
    /\ wave = 20
    /\ pc = "battle"
    /\ enemy.kind = "Boss"
    /\ ~is_alive(enemy)
    /\ player.passives["Ember's Fury"] = 3

---------------------------------------------------------------------------
(* Konami fragments *)

\* The decay step of the wave is done: the battle is entered, or the player
\* fell in it.
Decayed == pc \in {"battle", "action"} \/ (pc = "done" /\ ~stop_requested)

BossDown == enemy.kind = "Boss" /\ ~is_alive(enemy)

\* C5: the boss that falls to a player with fewer than 3 fragments leaves one
\* more and the counter at 5; in the four waves after the boss wave the counter
\* of a stash that is not empty goes 4, 3, 2, 1 with the decay steps, the stash
\* loses fragments only to an activation or a breakage in the shop, and the
\* decay step of the fifth wave empties it.
C5_FragmentDecay ==
    /\ [](player.konami_fragments > 0 =>
            IF wave % 5 = 0
            THEN IF BossDown
                 THEN player.konami_fragment_rounds_left = 5
                 ELSE ~Decayed /\ player.konami_fragment_rounds_left = 1
            ELSE player.konami_fragment_rounds_left
                    = 5 - (wave % 5) + (IF Decayed THEN 0 ELSE 1))
    /\ [][/\ (/\ pc = "action"
              /\ enemy'.kind = "Boss" /\ ~is_alive(enemy')
              /\ player.konami_fragments < 3)
             => /\ player'.konami_fragments = player.konami_fragments + 1
                /\ player'.konami_fragment_rounds_left = 5
          /\ player'.konami_fragments < player.konami_fragments
             => \/ obs'.op = "shop" /\ obs'.result \in {"activated", "broken"}
                \/ /\ wave % 5 = 0
                   /\ ~Decayed /\ pc' = "battle"
                   /\ player'.konami_fragments = 0
                   /\ player'.konami_fragment_rounds_left = 0]_vars

\* The fragment of the boss of wave 5, kept through four waves, is gone when the
\* battle of wave 10 starts.
C5_Witness ==
    /\ wave = 10
    /\ pc = "battle"
    /\ turn_count = 0
    /\ player.konami_fragments = 0
    /\ player.konami_fragment_rounds_left = 0
    /\ player.konami_purchase_count = 0
    /\ player.passives["Ember's Fury"] >= 1

---------------------------------------------------------------------------
(* The endless prompt *)

\* C10: the endless prompt is shown once, at the start of wave 26, and at no other
\* time.  Declining sets stop_requested and ends the session there, the player
\* alive and nothing of the wave run; accepting sets endless mode, which stays.
C10_EndlessPrompt ==
    /\ [](/\ hist.prompts = (IF wave > STORY_END_WAVE
                                /\ (wave > STORY_END_WAVE + 1 \/ pc # "play_wave")
                             THEN 1 ELSE 0)
          /\ stop_requested =>
                /\ pc = "done" /\ obs.op = "endless_prompt"
                /\ is_alive(player) /\ ~endless_mode
          /\ endless_mode <=> (hist.prompts = 1 /\ ~stop_requested)
          /\ pc = "enter" => wave = STORY_END_WAVE + 1)
    /\ [][/\ hist'.prompts # hist.prompts
             => /\ wave = STORY_END_WAVE + 1 /\ pc = "play_wave"
                /\ hist'.prompts = hist.prompts + 1
                /\ obs'.op = "endless_prompt"
                /\ UNCHANGED <<player, enemy, wave, turn_count, used_events,
                               konami_manager>>
                /\ IF AcceptsEndless(obs'.answer)
                   THEN endless_mode' /\ ~stop_requested' /\ pc' = "enter"
                   ELSE stop_requested' /\ ~endless_mode' /\ pc' = "done"
          /\ endless_mode => endless_mode'
          /\ pc = "done" => pc' = "done"]_vars

\* The player declined at wave 26 and the session is over.
C10_Witness ==
    /\ pc = "done"
    /\ stop_requested
    /\ wave = STORY_END_WAVE + 1
    /\ is_alive(player)
    /\ hist.prompts = 1

---------------------------------------------------------------------------
(* One visit of the shop, with any purse *)

MaxCoins == 16
MaxGold == 2

\* The shop of wave 2 (story) or of wave 26 (endless), entered by a player with
\* any coins and gold.
InitShop ==
    /\ \E coins \in 0..MaxCoins, gold \in 0..MaxGold :
           /\ player = [NewSessionPlayer EXCEPT !.coins = coins, !.gold = gold]
           /\ obs = [op |-> "enter_shop", coins |-> coins, gold |-> gold]
    /\ endless_mode \in BOOLEAN
    /\ wave = IF endless_mode THEN STORY_END_WAVE + 1 ELSE 2
    /\ enemy = SpawnEnemy(wave, endless_mode)
    /\ current_area = AreaOf(wave)
    /\ turn_count = 0
    /\ stop_requested = FALSE
    /\ konami_manager = NewKonamiManager(0)
    /\ used_events = {}
    /\ pc = "shop"
    /\ hist = NewHist("shopper")
    /\ twin = NoTwin

ShopInputsAll == [Attacker EXCEPT !.shop = ShopInputs]

ShopAnswered == ShopRound(ShopInputsAll) /\ UNCHANGED twin

NextShop == ShopAnswered

SpecShop == InitShop /\ [][NextShop]_vars

\* C8: choice 3 of the shop with coins equal to the price (10 in the story, 15 in
\* endless mode) leaves no coins and adds the gold (1 in the story, 2 in endless
\* mode); with one coin less it is refused and leaves coins and gold as they were.
C8_GoldAtTheBoundary ==
    [][(pc = "shop" /\ obs'.op = "shop" /\ obs'.choice = "3")
       => LET cost == IF endless_mode THEN 15 ELSE 10
              gain == IF endless_mode THEN 2 ELSE 1
          IN  /\ player.coins = cost
                 => /\ obs'.result = "bought"
                    /\ player'.coins = 0
                    /\ player'.gold = player.gold + gain
              /\ player.coins = cost - 1
                 => /\ obs'.result = "refused"
                    /\ player'.coins = player.coins
                    /\ player'.gold = player.gold]_vars

\* The relic of endless mode has just been bought with the last 15 coins.
C8_Witness ==
    /\ endless_mode
    /\ obs.op = "shop"
    /\ obs.choice = "3"
    /\ obs.result = "bought"
    /\ player.coins = 0
    /\ player.gold = 2

---------------------------------------------------------------------------
(* Two runs of the same session: the same seed for Game.rng, the same answers *)

\* Game.rng is the one generator handed to Game (or seeded by the caller): two
\* runs with the same seed draw the same values from it.  PlayerFarm.__init__
\* (line 230) makes a generator of its own, random.Random(), seeded from the
\* system, and PlayerFarm.add_new_skill (lines 273-274) shuffles with that one:
\* what it gives is free in each run.
MaxTwinWave == 4

TwinInputs == [Attacker EXCEPT !.picks = TRUE, !.waves = MaxTwinWave]

InitTwins ==
    /\ player = NewSessionPlayer
    /\ enemy = NoEnemy
    /\ NewGame
    /\ pc = "play_wave"
    /\ obs = NoObs
    /\ hist = NewHist("twins")
    /\ twin = [player |-> NewSessionPlayer, enemy |-> NoEnemy]

\* Both runs start the wave: the same event from Game.rng, a skill each from
\* the generator of its own player.
TwinsStartWave ==
    /\ StartWave(TwinInputs)
    /\ \E pick \in (IF wave = 15 THEN SkillPicks(twin.player, TRUE)
                   ELSE {"none"}) :
       \E o \in start_wave(twin.player, used_events, wave, endless_mode,
                           obs'.decision, pick, TwinInputs) :
           /\ o.fired = obs'.fired
           /\ twin' = [player |-> o.p, enemy |-> SpawnEnemy(wave, endless_mode)]

\* Both runs answer the shop alike.
TwinsShop ==
    /\ ShopRound(TwinInputs)
    /\ LET r == open_shop(twin.player, konami_manager, endless_mode,
                          obs'.choice, <<>>, FALSE, "none")
       IN  twin' = [twin EXCEPT !.player = IF r.result = "left"
                                           THEN fragment_decay(r.p)
                                           ELSE r.p]

\* The turn starts in both runs.
TwinsTurnStart ==
    /\ BattleTurnStart
    /\ twin' = [player |-> [twin.player EXCEPT
                              !.skill_cooldowns = TickCooldowns(@)],
                enemy |-> Escalate(twin.enemy, turn_count + 1)]

\* Both runs play the turn with the same answers and the same rolls.
TwinsTurn ==
    /\ BattleTurn(TwinInputs)
    /\ LET r == battle_turn(twin.player, twin.enemy, endless_mode, turn_count,
                            obs'.c)
       IN  twin' = [player |-> r.p, enemy |-> r.e]

\* The wave ends in both runs.
TwinsEndWave ==
    /\ EndWave(TwinInputs)
    /\ twin' = [twin EXCEPT !.player = end_wave(@)]

NextTwins ==
    \/ TwinsStartWave
    \/ TwinsShop
    \/ TwinsTurnStart
    \/ TwinsTurn
    \/ TwinsEndWave

SpecTwins == InitTwins /\ [][NextTwins]_vars

\* C6: two runs with the same seed and the same answers are in the same state
\* after every step (and so write the same lines).
C6_SameSeedSameRun ==
    /\ twin.player = player
    /\ twin.enemy = enemy

\* The two runs differ at most in the skills of the player.
TwinsDifferInSkillsOnly ==
    /\ [twin.player EXCEPT !.skills = player.skills] = player
    /\ twin.enemy = enemy

---------------------------------------------------------------------------
(* The escalation of a long battle *)

\* Game._battle, lines 576-577: long_battle_threshold and boss_threshold
EscalationThreshold(e) == IF e.kind = "Boss" THEN 15 ELSE 10

\* C11: in a battle the enemy's attack power is multiplied by 1.5 when the turn
\* counter reaches the threshold (10, or 15 for a boss) and is left alone at the
\* start of every other turn.
C11_EscalatesOnce ==
    [][(pc = "battle" /\ pc' = "action")
          => enemy'.attack_power
                = IF turn_count' = EscalationThreshold(enemy)
                  THEN (3 * enemy.attack_power) \div 2
                  ELSE enemy.attack_power]_vars

\* What the loop does: from the threshold on the attack power is multiplied at
\* the start of every turn.
C11_EscalatesEveryTurn ==
    [][(pc = "battle" /\ pc' = "action")
          => enemy'.attack_power
                = IF turn_count' >= EscalationThreshold(enemy)
                  THEN (3 * enemy.attack_power) \div 2
                  ELSE enemy.attack_power]_vars

---------------------------------------------------------------------------
(* Fortify Fence *)

\* The player's action of the turn just played, recomputed from the answers
\* and the roll recorded in obs'.
ActedInStep == show_options(player, enemy, obs'.c.choice, obs'.c.roll, obs'.c.raw)

\* C12: Fortify Fence takes effect at most once: chosen again by a player who
\* used it earlier in the session, it adds nothing to max HP or HP.
C12_FortifyFenceOnce ==
    [][(/\ pc = "action" /\ obs'.op = "turn"
        /\ ActedInStep.skill = "Fortify Fence"
        /\ hist.since["Fortify Fence"] >= 0)
          => /\ ActedInStep.p.max_hp = player.max_hp
             /\ ActedInStep.p.health = player.health]_vars

\* What the code does: Fortify Fence never enters the cooldown map, and every
\* use adds 25 to max HP and to HP.
C12_FortifyFenceEveryUse ==
    [][(/\ pc = "action" /\ obs'.op = "turn"
        /\ ActedInStep.skill = "Fortify Fence")
          => /\ ActedInStep.result = "used"
             /\ ActedInStep.p.max_hp = player.max_hp + 25
             /\ ActedInStep.p.health = player.health + 25
             /\ ActedInStep.p.skill_cooldowns["Fortify Fence"] = 0]_vars

---------------------------------------------------------------------------
(* The attack bought or found for one wave *)

\* The temporary attack granted by the step just taken, read from what obs'
\* records of it: the buff of a purchase of choice 2 in the shop, and 3 for
\* every Butterfly Bloom among the events fired.
GrantedInStep ==
    IF obs'.op = "shop"
    THEN IF obs'.choice = "2" /\ obs'.result = "bought"
         THEN (IF endless_mode THEN 20 ELSE 12) ELSE 0
    ELSE IF obs'.op = "start_wave"
    THEN 3 * Cardinality({i \in DOMAIN obs'.fired :
                             obs'.fired[i] = "Butterfly Bloom"})
    ELSE 0

\* The battle of the wave is over and _play_wave returns.
BattleReturns == pc = "battle" /\ pc' \in {"play_wave", "done"}

\* C13: no temporary bonus is held between waves; every grant of the wave adds
\* the same amount to the attack power and to the temporary-bonus counter; and
\* when the battle is over, won or lost, the counter is back at 0 and the attack
\* power is lower by exactly the counter (plus the 5 of the wave-clear upgrade
\* of a player who survived), so the permanent attack is untouched.
C13_TempBonusStripped ==
    /\ [](pc \in {"play_wave", "enter", "done"}
             => player.temp_attack_bonus = 0)
    /\ [][IF BattleReturns
          THEN /\ player'.temp_attack_bonus = 0
               /\ player'.attack_power
                     = player.attack_power - player.temp_attack_bonus
                       + (IF is_alive(player) THEN 5 ELSE 0)
          ELSE /\ player'.temp_attack_bonus
                     = player.temp_attack_bonus + GrantedInStep
               /\ player'.attack_power - player'.temp_attack_bonus
                     >= player.attack_power - player.temp_attack_bonus]_vars

\* Wave 6 is over for a player who met Butterfly Bloom and bought attack twice
\* in the shop of that wave: 27 of temporary attack were stripped.
C13_Witness ==
    /\ wave = 7
    /\ pc = "play_wave"
    /\ hist.plan = "booster"
    /\ player.temp_attack_bonus = 0
    /\ obs.op = "end_wave"
    /\ obs.stripped = 3 + 12 + 12
    /\ "Butterfly Bloom" \in used_events
    /\ is_alive(player)

---------------------------------------------------------------------------
(* The random events over a long session: the story and the first endless
   waves, played by a lucky attacker who accepts endless mode; every trigger
   takes the first candidate not yet used and, when it chains, one of the last
   six of the pool as the extra *)

InitEvents ==
    /\ player = NewSessionPlayer
    /\ enemy = NoEnemy
    /\ NewGame
    /\ pc = "play_wave"
    /\ obs = NoObs
    /\ hist = NewHist("wanderer")
    /\ twin = NoTwin

NextEvents ==
    \/ Prompted
    \/ WaveStarted
    \/ ShopVisited
    \/ TurnStarted
    \/ TurnPlayed
    \/ WaveEnded

SpecEvents == InitEvents /\ [][NextEvents]_vars

\* C14: the selection of a random event never fails (the candidates not yet
\* used are never all gone when a trigger starts).
C14_SelectionNeverFails == pc # "crashed"

---------------------------------------------------------------------------
(* The waves of the random events *)

\* The wave just started called _trigger_random_event: it fired an event, or
\* failed to choose one.
Triggered == Len(obs.fired) >= 1 \/ pc = "crashed"

\* C15: the start of wave w triggers a random event exactly when w > 1, w is
\* divisible by 3 and w is not 15 (so not in waves 5, 10 and 15 either), and a
\* trigger fires at most two events.
C15_EventWaves ==
    obs.op = "start_wave" =>
        /\ Triggered <=> (wave > 1 /\ wave % 3 = 0 /\ wave # 15)
        /\ Len(obs.fired) <= 2

\* Wave 18 has started with a chained trigger: two events fired.
C15_Witness ==
    /\ obs.op = "start_wave"
    /\ wave = 18
    /\ Len(obs.fired) = 2
    /\ obs.fired[1] # obs.fired[2]

---------------------------------------------------------------------------
(* Game.start from its first line, with KeyboardInterrupt ("^C") among the
   answers of every prompt *)

\* Game.__init__: self.player = None
NoPlayer == [none |-> TRUE]

\* Game.start, lines 462-503: the answers to "Choose an option: "
MenuAnswers == {"1", "start", "2", "3", "", "^C"}

InitAbort ==
    /\ player = NoPlayer
    /\ enemy = NoEnemy
    /\ NewGame
    /\ pc = "intro"
    /\ obs = NoObs
    /\ hist = NewHist("abort")
    /\ twin = NoTwin

\* Game.start, lines 447-460: the six input() calls of the intro.  A
\* KeyboardInterrupt in one of them is raised outside the try of line 510.
Intro ==
    /\ pc = "intro"
    /\ \E key \in {"", "^C"} :
           /\ pc' = IF key = "^C" THEN "uncaught" ELSE "menu"
           /\ obs' = [op |-> "intro", key |-> key]
    /\ UNCHANGED <<player, enemy, gameVars, konami_manager, hist, twin>>

\* Game.start, lines 461-503: one round of the main menu; key answers the
\* input() calls of the notes, of the update notes and of a wrong choice.
MainMenu ==
    /\ pc = "menu"
    /\ \E choice \in MenuAnswers :
       \E key \in (IF choice \in {"1", "start", "^C"} THEN {""}
                   ELSE {"", "^C"}) :
           /\ pc' = IF choice = "^C" \/ key = "^C" THEN "uncaught"
                    ELSE IF choice \in {"1", "start", "s"} THEN "name"
                    ELSE "menu"
           /\ obs' = [op |-> "menu", choice |-> choice, key |-> key]
    /\ UNCHANGED <<player, enemy, gameVars, konami_manager, hist, twin>>

\* Game.start, lines 504-508: the farm name and the creation of the player
EnterFarmName ==
    /\ pc = "name"
    /\ \E name \in {"", "Farm", "^C"} :
           /\ IF name = "^C"
              THEN pc' = "uncaught" /\ player' = player
              ELSE pc' = "play_wave" /\ player' = NewSessionPlayer
           /\ obs' = [op |-> "name", name |-> name]
    /\ UNCHANGED <<enemy, gameVars, konami_manager, hist, twin>>

\* A prompt of the session is waiting for its answer: the area prompt of
\* _enter_area_if_needed or the endless prompt when _play_wave starts, the
\* decision of wave 25, the prompt of the shop, the prompts of the turn.
AtSessionPrompt ==
    \/ /\ pc \in {"play_wave", "enter"}
       /\ \/ NeedsEndlessPrompt /\ pc = "play_wave"
          \/ AreaOf(wave) \notin {"none", current_area}
          \/ wave = 25
    \/ pc \in {"shop", "action"}

\* Game.start, lines 519-521: KeyboardInterrupt raised by a prompt inside the
\* try is caught, the farewell is written and start returns.  The area prompt
\* comes after the area was entered (line 766).
AbortSession ==
    /\ AtSessionPrompt
    /\ pc' = "goodbye"
    /\ current_area' = IF pc \in {"play_wave", "enter"}
                          /\ ~(NeedsEndlessPrompt /\ pc = "play_wave")
                       THEN enter_area_if_needed(current_area, wave)
                       ELSE current_area
    /\ obs' = [op |-> "abort", at |-> pc]
    /\ UNCHANGED <<player, enemy, wave, turn_count, endless_mode,
                   stop_requested, used_events, konami_manager, hist, twin>>

NextAbort ==
    \/ Intro
    \/ MainMenu
    \/ EnterFarmName
    \/ AbortSession
    \/ WaveStarted
    \/ ShopVisited
    \/ TurnStarted
    \/ TurnPlayed
    \/ WaveEnded

SpecAbort == InitAbort /\ [][NextAbort]_vars

\* C16: a KeyboardInterrupt raised by any prompt of Game.start is caught and
\* turned into the farewell: it never leaves Game.start.
C16_AbortAlwaysCaught == pc # "uncaught"

\* What the code does: the interrupts of the session's prompts are caught, and
\* after the farewell nothing changes any more; those of the intro, of the main
\* menu and of the farm name are raised before the try and leave Game.start.
C16_AbortCaughtInSession ==
    /\ [](pc = "uncaught" <=> (/\ obs.op \in {"intro", "menu", "name"}
                               /\ "^C" \in {obs[f] : f \in DOMAIN obs}))
    /\ [](pc = "goodbye" <=> obs.op = "abort")
    /\ [][pc \notin {"goodbye", "uncaught"}]_vars

---------------------------------------------------------------------------
(* Wrong answers in a battle turn *)

\* The answers c of a turn are wrong for player p: the action is not 1, 2 or 3;
\* or it is 3 and p has no skill, or the index is no number, or out of range, or
\* names a skill on cooldown.
WrongAnswers(p, c) ==
    \/ c.choice \notin {"1", "2", "3"}
    \/ /\ c.choice = "3"
       /\ \/ Len(p.skills) = 0
          \/ ~IsInt(c.raw)
          \/ ParseInt(c.raw) \notin 1..Len(p.skills)
          \/ p.skill_cooldowns[p.skills[ParseInt(c.raw)]] > 0

\* C17: a turn with wrong answers does not fail; the player's action changes
\* nothing of the player or of the enemy (HP, cooldowns, stun, debuff); and the
\* enemy, alive and not stunned, attacks in that turn: after the whole turn the
\* enemy's HP and the cooldowns are as before, the player has lost HP only to the
\* enemy (and to the endless gimmick), and nothing was used or healed.
C17_WrongAnswersCostTheTurn ==
    [][(pc = "action" /\ obs'.op = "turn" /\ WrongAnswers(player, obs'.c))
          => /\ pc' = "battle"
             /\ ActedInStep.p = player
             /\ ActedInStep.e = enemy
             /\ obs'.result \in {"free_turn", "emote", "on_cooldown"}
             /\ obs'.attacked = (is_alive(enemy) /\ ~enemy.stunned)
             /\ enemy'.health = enemy.health
             /\ player'.skill_cooldowns = player.skill_cooldowns
             /\ player'.max_hp = player.max_hp
             /\ player'.health <= player.health
             /\ player'.health
                   >= player.health
                        - (IF obs'.drained THEN obs'.c.drain ELSE 0)
                        - (IF obs'.attacked THEN obs'.c.eroll ELSE 0)
       ]_vars

\* In the battle of wave 3 the fumbler, holding the merchant's skill on
\* cooldown, chose it again: the turn was lost and the enemy attacked.
C17_Witness ==
    /\ hist.plan = "fumbler"
    /\ wave = 3
    /\ obs.op = "turn"
    /\ obs.result = "on_cooldown"
    /\ obs.attacked
    /\ player.skill_cooldowns[obs.skill] > 0

---------------------------------------------------------------------------
(* The progression between waves *)

\* C18: the wave counter moves only by +1, and only when a wave ends with the
\* player alive and no stop requested; the same step adds 5 to the attack (after
\* the attack of the wave is given back), 10 to max HP and heals to full.  A wave
\* that ends with the player dead, or a declined endless prompt, leaves the
\* counter and the player's attack, max HP and HP alone and ends the session.
\* Hence every wave begins with HP equal to max HP.
C18_WaveProgression ==
    /\ [](pc = "play_wave" => player.health = player.max_hp)
    /\ [][/\ wave' # wave => (BattleReturns /\ is_alive(player))
          /\ BattleReturns =>
                IF is_alive(player) /\ ~stop_requested
                THEN /\ wave' = wave + 1
                     /\ pc' = "play_wave"
                     /\ player'.attack_power
                           = player.attack_power - player.temp_attack_bonus + 5
                     /\ player'.max_hp = player.max_hp + 10
                     /\ player'.health = player.max_hp + 10
                ELSE /\ wave' = wave
                     /\ pc' = "done"
                     /\ player'.attack_power
                           = player.attack_power - player.temp_attack_bonus
                     /\ player'.max_hp = player.max_hp
                     /\ player'.health = player.health
          /\ stop_requested' /\ ~stop_requested =>
                /\ pc' = "done"
                /\ wave' = wave
                /\ player' = player
          /\ pc # "done"]_vars

\* Wave 1 was won by a wounded player: wave 2 begins with the upgrade and full
\* HP.
C18_Witness ==
    /\ wave = 2
    /\ pc = "play_wave"
    /\ obs.op = "end_wave"
    /\ player.attack_power = 30
    /\ player.max_hp = 160
    /\ player.health = 160
    /\ turn_count >= 2

---------------------------------------------------------------------------
(* The purse *)

\* The player p cannot pay for the choice made in the shop.
ShortOfFunds(p, choice, endless) ==
    LET cost == konami_activation_cost(p, IF endless THEN 1 ELSE 0)
    IN  CASE choice = "1" -> p.coins < TonicCost(endless)
          [] choice = "2" -> p.coins < AttackTonicCost(endless)
          [] choice = "3" -> p.coins < GoldItemCost(endless)
          [] choice = "4" -> p.gold < SeedCost(endless)
          [] choice = "5" -> /\ p.konami_fragments > 0
                             /\ (p.gold < cost.gold \/ p.coins < cost.coins)
          [] OTHER -> FALSE

\* C19: coins and gold are never negative, and a purchase the player cannot pay
\* for changes nothing of the player but, at most, the flag of the gold tip.
C19_PurseNeverNegative ==
    /\ [](player.coins >= 0 /\ player.gold >= 0)
    /\ [][(/\ pc = "shop" /\ obs'.op = "shop"
           /\ ShortOfFunds(player, obs'.choice, endless_mode))
             => /\ player' = [player EXCEPT
                                 !.gold_tip_shown = player'.gold_tip_shown]
                /\ player.gold_tip_shown => player'.gold_tip_shown
                /\ pc' = "shop"]_vars

\* An activation was asked for with a fragment but without the gold: nothing
\* was taken and the tip was shown.
C19_Witness ==
    /\ obs.op = "shop"
    /\ obs.choice = "5"
    /\ obs.result = "refused"
    /\ player.konami_fragments > 0
    /\ player.gold < 5
    /\ player.gold_tip_shown

---------------------------------------------------------------------------
(* The damage tonic *)

\* The tonic of the player is off, or on with the turns and the reduction of one
\* purchase at most.
TonicWithinOnePurchase(p) ==
    /\ p.tonic_turns \in 0..3
    /\ p.tonic_reduction \in {0, 30, 45}
    /\ p.tonic_turns = 0 <=> p.tonic_reduction = 0
    /\ p.tonic_reduction = 45 => p.tonic_turns <= 2

\* C20: asking for the damage tonic while one is in effect is rejected and
\* leaves coins, tonic turns and tonic reduction as they were; the turns left
\* never exceed 3, and a tonic in effect only runs down: its turns never grow
\* and its reduction never changes but to end.
C20_TonicNotRefreshed ==
    /\ [][(/\ pc = "shop" /\ obs'.op = "shop" /\ obs'.choice = "1"
           /\ player.tonic_turns > 0)
             => /\ obs'.result = "in_effect"
                /\ player'.coins = player.coins
                /\ player'.tonic_turns = player.tonic_turns
                /\ player'.tonic_reduction = player.tonic_reduction]_vars
    /\ [](TonicWithinOnePurchase(player))
    /\ [][player.tonic_turns > 0
             => /\ player'.tonic_turns <= player.tonic_turns
                /\ player'.tonic_reduction \in {0, player.tonic_reduction}]_vars

\* The brewer asked for a second tonic with the coins for it in hand and the
\* first one untouched: the purchase was rejected.
C20_Witness ==
    /\ obs.op = "shop"
    /\ obs.choice = "1"
    /\ obs.result = "in_effect"
    /\ hist.plan = "brewer"
    /\ player.coins >= TonicCost(endless_mode)
    /\ player.tonic_turns = 3
    /\ player.tonic_reduction = 30

---------------------------------------------------------------------------
(* One visit of the shop by a player who holds fragments: any number of
   activations bought before, a purse at the price, one short of it or well above
   it, the upgrades of the waves cleared so far, and as many skills as the
   activations before gave, or two more *)

MaxPurchases == 7
MaxSpareCoins == 12
MaxSpareGold == 7

\* The waves of a shop explored in the story
StoryShopWaves == {6, 16, 24}

InitActivation ==
    /\ endless_mode \in BOOLEAN
    /\ wave \in (IF endless_mode THEN {STORY_END_WAVE + 1} ELSE StoryShopWaves)
    /\ \E count \in 0..MaxPurchases, fragments \in {0, 1},
          more \in {0, 2}, spare \in {-1, 0, 1} :
          LET cost == konami_activation_cost(
                          [konami_purchase_count |-> count],
                          IF endless_mode THEN 1 ELSE 0)
              stacks == IF wave > 15 THEN 3 ELSE 1
              coins == cost.coins + (IF spare = 1 THEN MaxSpareCoins ELSE spare)
              gold == cost.gold + (IF spare = 1 THEN MaxSpareGold ELSE spare)
          IN  /\ player =
                   [NewSessionPlayer EXCEPT
                       !.coins = coins,
                       !.gold = gold,
                       !.attack_power = @ + 5 * (wave - 1) + 5 * stacks,
                       !.passives = [n \in PassiveNames |-> stacks],
                       !.max_hp = @ + 10 * (wave - 1),
                       !.health = @ + 10 * (wave - 1),
                       !.konami_purchase_count = count,
                       !.konami_fragments = fragments,
                       !.konami_fragment_rounds_left =
                           IF fragments > 0 THEN 5 ELSE 0,
                       !.skills = SubSeq(SkillCatalog, 1,
                                         Min(Len(SkillCatalog), count + more))]
              /\ obs = [op |-> "enter_shop", coins |-> coins, gold |-> gold]
    /\ enemy = SpawnEnemy(wave, endless_mode)
    /\ current_area = AreaOf(wave)
    /\ turn_count = 0
    /\ stop_requested = FALSE
    /\ konami_manager = NewKonamiManager(0)
    /\ used_events = {}
    /\ pc = "shop"
    /\ hist = NewHist("activator")
    /\ twin = NoTwin

SpecActivation == InitActivation /\ [][ShopVisited]_vars

\* The price of an activation as the specification gives it
StatedPrice(count, endless) ==
    LET tier == (count \div 3) + (IF endless THEN 1 ELSE 0)
    IN  [coins |-> 7 + 2 * tier, gold |-> 5 + tier]

\* The activation asked for in this step went through.
Activates == pc = "shop" /\ obs'.op = "shop" /\ obs'.result = "activated"

\* C21: the price charged for an activation is 7 + 2*tier coins and 5 + tier
\* gold with tier = purchase count \div 3, plus one tier in endless mode; a purse
\* below it in coins or in gold is refused; and the price never goes down.
C21_ActivationPrice ==
    /\ [][Activates
            => /\ player.coins - player'.coins
                    = StatedPrice(player.konami_purchase_count, endless_mode).coins
               /\ player.gold - player'.gold
                    = StatedPrice(player.konami_purchase_count, endless_mode).gold]_vars
    /\ [][(/\ pc = "shop" /\ obs'.op = "shop" /\ obs'.choice = "5"
           /\ player.konami_fragments > 0)
            => (obs'.result = "refused"
                  <=> \/ player.coins < StatedPrice(player.konami_purchase_count,
                                                    endless_mode).coins
                      \/ player.gold < StatedPrice(player.konami_purchase_count,
                                                   endless_mode).gold)]_vars
    /\ [][/\ StatedPrice(player'.konami_purchase_count, endless_mode').coins
               >= StatedPrice(player.konami_purchase_count, endless_mode).coins
          /\ StatedPrice(player'.konami_purchase_count, endless_mode').gold
               >= StatedPrice(player.konami_purchase_count, endless_mode).gold]_vars

\* The third activation of an endless session was bought and raised the price:
\* it was charged at tier 1 (9 coins and 6 gold), the next one is at tier 2.
C21_Witness ==
    /\ obs.op = "shop"
    /\ obs.result = "activated"
    /\ endless_mode
    /\ player.konami_purchase_count = 3
    /\ player.coins = MaxSpareCoins
    /\ player.gold = MaxSpareGold

---------------------------------------------------------------------------
(* The activation of a fragment *)

\* The tokens as check_sequence compares them
Normalized(tokens) == [i \in 1..Len(tokens) |-> LowerStrip(tokens[i])]

\* What a successful activation does to the player, but for the skills
ActivationEffects ==
    LET price == StatedPrice(player.konami_purchase_count, endless_mode)
        atk_buff == Max(1, (3 * player.attack_power) \div 10)
        hp_buff == Max(1, (3 * player.max_hp) \div 10)
    IN  /\ player.konami_fragments >= 1
        /\ player.gold >= price.gold
        /\ player.coins >= price.coins
        /\ player'.konami_fragments = player.konami_fragments - 1
        /\ player'.gold = player.gold - price.gold
        /\ player'.coins = player.coins - price.coins
        /\ player'.konami_purchase_count = player.konami_purchase_count + 1
        /\ player'.attack_power = player.attack_power + atk_buff
        /\ player'.max_hp = player.max_hp + hp_buff
        /\ player'.health = player.health + hp_buff
        /\ IF Len(player.skills) < 6
           THEN /\ Len(player'.skills) = Len(player.skills) + 1
                /\ SubSeq(player'.skills, 1, Len(player.skills)) = player.skills
                /\ player'.skills[Len(player'.skills)] \in SkillNames
                /\ \A i \in 1..Len(player.skills) :
                       player.skills[i] # player'.skills[Len(player'.skills)]
           ELSE player'.skills = player.skills

\* C22 as stated: an activation succeeds only with a fragment, the gold and the
\* coins of the price and the entered tokens equal to the ten tokens of the
\* sequence, and then takes a fragment and the price, counts the purchase, adds
\* 30% of attack and of max HP (to max HP and to HP), rounded down and at least
\* 1, and gives a new skill if fewer than six are owned.
C22_ActivationAsStated ==
    [][Activates => (obs'.tokens = KONAMI_SEQUENCE /\ ActivationEffects)]_vars

\* C22, amended: the entered tokens are compared after lower-casing, so the
\* sequence typed in capitals activates too; the rest as stated.
C22_Activation ==
    [][Activates
         => (Normalized(obs'.tokens) = KONAMI_SEQUENCE /\ ActivationEffects)]_vars

\* An activation went through on tokens typed in capitals, for a player with an
\* attack that 30% does not divide evenly.
C22_Witness ==
    /\ obs.op = "shop"
    /\ obs.result = "activated"
    /\ obs.tokens # KONAMI_SEQUENCE
    /\ Len(player.skills) = 6
    /\ player.attack_power = 55 + 16
    /\ player.konami_purchase_count >= 2

---------------------------------------------------------------------------
(* The skills of the player *)

\* No skill twice in the list, six at most
SkillsDistinct(p) ==
    /\ Len(p.skills) <= Len(SkillCatalog)
    /\ \A i, j \in 1..Len(p.skills) : p.skills[i] = p.skills[j] => i = j
    /\ \A i \in 1..Len(p.skills) : p.skills[i] \in SkillNames

\* C23: the list of skills never holds a name twice nor more than six skills;
\* add_new_skill (here called by an activation) appends exactly one skill not
\* owned when fewer than six are owned and leaves the list alone when all six
\* are.
C23_SkillsNeverDuplicated ==
    /\ [](SkillsDistinct(player))
    /\ [][Activates
            => IF Len(player.skills) < Len(SkillCatalog)
               THEN \E n \in SkillNames :
                       /\ \A i \in 1..Len(player.skills) : player.skills[i] # n
                       /\ player'.skills = Append(player.skills, n)
               ELSE player'.skills = player.skills]_vars
    /\ [][player'.skills # player.skills => Activates]_vars

\* An activation was bought by a player who owned all six skills.
C23_Witness ==
    /\ obs.op = "shop"
    /\ obs.result = "activated"
    /\ player.konami_purchase_count = MaxPurchases + 1
    /\ Len(player.skills) = Len(SkillCatalog)

---------------------------------------------------------------------------
(* The outcome of a battle *)

\* The loop of Game._battle has ended: one side at least is down.
BattleOver == pc = "battle" /\ ~(is_alive(player) /\ is_alive(enemy))

\* C24: a battle ends with exactly one side standing, the player with the enemy
\* at 0 HP or the enemy with the player at 0 HP, never with both at 0 HP; so the
\* player who was given the rewards of a victory is alive.
C24_OneSideStanding ==
    BattleOver => (is_alive(player) \/ is_alive(enemy))

---------------------------------------------------------------------------
(* The end of the story and endless mode: the waves from 24 on of a player who
   attacked through the story, in the state in which the attacker of the
   sessions above comes to the shop of wave 24 *)

InitEndless ==
    /\ player = [NewSessionPlayer EXCEPT
                    !.attack_power = 155,
                    !.max_hp = 395,
                    !.health = 348,
                    !.coins = 180,
                    !.skills = <<"Blazing Corn", "Rain Dance">>,
                    !.passives = [n \in PassiveNames |-> 3],
                    !.konami_fragments = 1,
                    !.konami_fragment_rounds_left = 2,
                    !.merchant_skill_given = TRUE]
    /\ wave = STORY_END_WAVE - 1
    /\ endless_mode = FALSE
    /\ enemy = SpawnEnemy(wave, endless_mode)
    /\ current_area = AreaOf(wave)
    /\ turn_count = 3
    /\ stop_requested = FALSE
    /\ konami_manager = NewKonamiManager(0)
    /\ used_events = {"Mysterious Merchant", "Lightning Storm",
                      "Lost Cow Returns", "Strange Seed Sprouts", "A Trap",
                      "Wandering Bard", "Locust Swarm"}
    /\ pc = "shop"
    /\ obs = [op |-> "start_wave", decision |-> "",
              fired |-> <<"Locust Swarm">>]
    /\ hist = NewHist("survivor")
    /\ twin = NoTwin

SpecEndless == InitEndless /\ [][Next]_vars

\* The gimmick drained the player in this step.
DrainsInStep == pc = "action" /\ obs'.op = "turn" /\ obs'.drained

\* C25: the endless gimmick drains only in endless mode, after the player's
\* action and with the enemy still alive, and not within 3 turns of the last
\* drain by the same enemy, whose turn the enemy keeps; a new enemy has no such
\* turn, so its gate is open from its first turn.
C25_GimmickGate ==
    /\ [][DrainsInStep
            => /\ endless_mode
               /\ is_alive(enemy')
               /\ turn_count - enemy.last_gimmick_turn >= 3
               /\ enemy'.last_gimmick_turn = turn_count]_vars
    /\ [][(pc = "action" /\ obs'.op = "turn" /\ ~obs'.drained)
            => enemy'.last_gimmick_turn = enemy.last_gimmick_turn]_vars
    /\ [][obs'.op = "start_wave"
            => 1 - enemy'.last_gimmick_turn >= 3]_vars
    /\ [](enemy.last_gimmick_turn <= turn_count)

\* The enemy of wave 26 drains at its turn 4 a player who met it at full
\* health: four hits and two drains are gone from the HP, so this is the second
\* drain by this enemy, three turns after the first.
C25_Witness ==
    /\ obs.op = "turn"
    /\ obs.drained
    /\ wave = STORY_END_WAVE + 1
    /\ turn_count = 4
    /\ enemy.last_gimmick_turn = 4
    /\ obs.attacked
    /\ player.health = player.max_hp - (4 * obs.c.eroll) - (2 * obs.c.drain)

---------------------------------------------------------------------------
(* The one-shot flags *)

Fired(q, event) == \E i \in 1..Len(q) : q[i] = event

\* The step is a wave start at which the Mysterious Merchant comes.
MerchantCalls ==
    /\ pc \in {"enter", "play_wave"}
    /\ obs'.op = "start_wave"
    /\ Fired(obs'.fired, "Mysterious Merchant")

\* No other event of the trigger moves coins.
OnlyMerchantPays(q) ==
    \A i \in 1..Len(q) :
        q[i] # "Mysterious Merchant" => EventCoins(q[i]) = {0}

\* C26: merchant_skill_given and gold_tip_shown never go back to false; a round of
\* the shop writes the gold tip only while gold_tip_shown is false and sets it, so
\* the tip is written at most once in a session; the Mysterious Merchant gives a
\* skill (and no coins) only while merchant_skill_given is false, setting it, and
\* at every later call leaves the skills alone and gives 3 to 6 coins.
C26_OneShotFlags ==
    /\ [][/\ player.merchant_skill_given => player'.merchant_skill_given
          /\ player.gold_tip_shown => player'.gold_tip_shown]_vars
    /\ [][(pc = "shop" /\ obs'.op = "shop" /\ obs'.tip)
             => (~player.gold_tip_shown /\ player'.gold_tip_shown)]_vars
    /\ [][MerchantCalls
             => IF player.merchant_skill_given
                THEN /\ player'.skills = player.skills
                     /\ OnlyMerchantPays(obs'.fired)
                           => (player'.coins - player.coins) \in 3..6
                ELSE /\ player'.merchant_skill_given
                     /\ Len(player'.skills) = Len(player.skills) + 1
                     /\ OnlyMerchantPays(obs'.fired)
                           => player'.coins = player.coins]_vars

\* The trader was told the tip at wave 4, met the merchant at wave 3 and meets
\* the merchant again at wave 6, after the storm, for the six coins that bring
\* the 41 of the first five waves to 47.
C26_Witness ==
    /\ hist.plan = "trader"
    /\ obs.op = "start_wave"
    /\ wave = 6
    /\ obs.fired = <<"Lightning Storm", "Mysterious Merchant">>
    /\ player.merchant_skill_given
    /\ player.gold_tip_shown
    /\ Len(player.skills) = 1
    /\ player.coins = 47

---------------------------------------------------------------------------
(* The end of every battle: the battle of wave 3 of a player who attacked
   through the first two waves, was given Fortify Fence, Concussive Seed or
   Rain Dance by the merchant of wave 3 and from then on never attacks *)

StallSkills == {"Fortify Fence", "Concussive Seed", "Rain Dance"}

InitStall ==
    /\ wave = 3
    /\ \E skill \in StallSkills :
           player = [NewSessionPlayer EXCEPT
                        !.attack_power = 35,
                        !.max_hp = 170,
                        !.health = 170,
                        !.coins = 14,
                        !.skills = <<skill>>,
                        !.merchant_skill_given = TRUE]
    /\ endless_mode = FALSE
    /\ enemy = SpawnEnemy(wave, endless_mode)
    /\ current_area = AreaOf(wave)
    /\ turn_count = 0
    /\ stop_requested = FALSE
    /\ konami_manager = NewKonamiManager(0)
    /\ used_events = {"Mysterious Merchant"}
    /\ pc = "battle"
    /\ obs = [op |-> "start_wave", decision |-> "",
              fired |-> <<"Mysterious Merchant">>]
    /\ hist = NewHist("staller")
    /\ twin = NoTwin

NextStall == TurnStarted \/ TurnPlayed \/ WaveEnded

\* The loop of Game._battle goes on, and every prompt is answered.
SpecStall ==
    InitStall /\ [][NextStall]_vars /\ WF_vars(TurnStarted) /\ WF_vars(TurnPlayed)

\* C27: every battle ends: whatever the player answers (healing, stunning,
\* Fortify Fence, invalid input) and whatever the rolls, the HP of the player or
\* of the enemy comes to 0.
C27_EveryBattleEnds ==
    [](pc \in {"battle", "action"} => <>BattleOver)

\* The staller raised max HP with Fortify Fence at ten turns or more and fell
\* all the same, to the enemy that grows from the tenth turn on.
C27_Witness ==
    /\ BattleOver
    /\ hist.plan = "staller"
    /\ ~is_alive(player)
    /\ is_alive(enemy)
    /\ player.max_hp >= 170 + (25 * 10)
    /\ turn_count > 15

---------------------------------------------------------------------------
(* One call of Game._apply_event, and a second one as in a chain of events, at
   every event wave up to MaxScaleWave, in the
   story up to wave 25 and in endless mode from wave 26 on, of a player with the
   max HP of the wave clears, with or without the 15 of a Strange Seed *)

MaxScaleWave == 60

InitScale ==
    /\ wave \in {w \in 1..MaxScaleWave : EventWave(w)}
    /\ endless_mode = (wave > STORY_END_WAVE)
    /\ \E seeds \in 0..1, shield \in {0, 40} :
           LET hp == 150 + (10 * (wave - 1)) + (15 * seeds)
           IN  player = [NewSessionPlayer EXCEPT
                            !.max_hp = hp,
                            !.health = hp,
                            !.attack_power = 25 + (5 * (wave - 1)),
                            !.irrigation_shield = shield]
    /\ enemy = SpawnEnemy(wave, endless_mode)
    /\ current_area = AreaOf(wave)
    /\ turn_count = 0
    /\ stop_requested = FALSE
    /\ konami_manager = NewKonamiManager(0)
    /\ used_events = {}
    /\ pc = "call"
    /\ obs = [op |-> "none"]
    /\ hist = NewHist("attacker")
    /\ twin = NoTwin

\* Game._apply_event(event) as Game._trigger_random_event calls it: for every
\* event of the pool of the wave, and once more for every other event (the
\* extra event of a chain).
ApplyEvent ==
    /\ pc \in {"call", "returned"}
    /\ \E i \in 1..Len(event_pool(wave)) :
       \E q \in EventOutcomes(player, event_pool(wave)[i], wave, endless_mode,
                              Attacker) :
           /\ pc = "returned" => event_pool(wave)[i] # obs.event
           /\ player' = q
           /\ obs' = [op |-> "event", event |-> event_pool(wave)[i]]
    /\ pc' = IF pc = "call" THEN "returned" ELSE "chained"
    /\ UNCHANGED <<enemy, wave, turn_count, endless_mode, stop_requested,
                   konami_manager, used_events, current_area, hist, twin>>

SpecScale == InitScale /\ [][ApplyEvent]_vars

StatedScale(w, endless) ==
    IF ~endless THEN 100 ELSE Min(200, 100 + (3 * Max(0, w - 25)))

StatedPercent(base, w, endless) == Min(4500, base * StatedScale(w, endless))

\* The base percentages: Lost Cow shields for three times 12%.
StatedBase(event) ==
    CASE event = "Lost Cow Returns" -> 36
      [] event = "Irrigation Boom" -> 10
      [] OTHER -> EventDamageBase(event)

GrantsShield(event) == event \in {"Lost Cow Returns", "Irrigation Boom"}

\* The event of the step rounds min(0.45, base * eventScale) of max HP: as the
\* damage taken, or as the shield that replaces a smaller one.
RoundsStatedPercent ==
    LET amounts == RoundFloat(player.max_hp,
                              StatedPercent(StatedBase(obs'.event), wave,
                                            endless_mode))
    IN  /\ EventDamageBase(obs'.event) > 0
            => \E a \in amounts : player'.health = Max(0, player.health - a)
        /\ GrantsShield(obs'.event)
            => \E a \in amounts :
                   player'.irrigation_shield
                       = Max(player.irrigation_shield, Max(1, a))

NewShield ==
    GrantsShield(obs'.event)
        /\ player'.irrigation_shield > player.irrigation_shield

\* C28 as stated: every event rounds min(0.45, base * eventScale) of max HP, with
\* eventScale 1.0 outside endless mode and min(2.0, 1 + 0.03 * max(0, wave - 25))
\* in it; no event takes more than 45% of max HP, and no event grants a shield
\* larger than 45% of max HP.
C28_EventPercentAsStated ==
    [][(pc \in {"call", "returned"} /\ obs'.op = "event")
         => /\ RoundsStatedPercent
            /\ 100 * (player.health - player'.health) <= 45 * player.max_hp
            /\ NewShield
                 => 100 * player'.irrigation_shield <= 45 * player.max_hp]_vars

\* C28: every event rounds min(0.45, base * eventScale) of max HP, with eventScale
\* as stated; no event takes more than 45% of max HP, and the shield an event
\* grants is 45% of max HP rounded to the nearest integer at most: up to half a
\* point above 45% of max HP.
C28_EventPercent ==
    [][(pc \in {"call", "returned"} /\ obs'.op = "event")
         => /\ RoundsStatedPercent
            /\ 100 * (player.health - player'.health) <= 45 * player.max_hp
            /\ NewShield
                 => 100 * player'.irrigation_shield
                       <= (45 * player.max_hp) + 50]_vars

\* The cow returns at wave 36 of endless mode to a player of 515 max HP: the
\* scaled 47.88% is cut to 45%, and the shield is the 231.75 rounded to 232.
C28_Witness ==
    /\ pc = "returned"
    /\ obs.op = "event"
    /\ obs.event = "Lost Cow Returns"
    /\ wave = 36
    /\ endless_mode
    /\ player.max_hp = 515
    /\ player.irrigation_shield = 232

---------------------------------------------------------------------------
(* Stun and debuff *)

\* What the player holds against a hit: HP and shield
Standing(p) == p.health + p.irrigation_shield

\* C29: the stun or the debuff that a skill puts on the enemy is spent by the
\* enemy's action of the same turn: an enemy that is stunned (and alive) does not
\* attack and loses the stun; otherwise the debuff reduces the attack of the
\* turn and goes back to 0.  So a turn starts with no stun and no debuff pending,
\* and the debuff an attack meets is 0.3 at most.
C29_StunAndDebuffSpent ==
    /\ [](pc = "action" => (~enemy.stunned /\ enemy.attack_debuff = 0))
    /\ [][(pc = "action" /\ obs'.op = "turn")
            => LET acted == show_options(player, enemy, obs'.c.choice,
                                         obs'.c.roll, obs'.c.raw)
               IN  /\ acted.e.attack_debuff <= 30
                   /\ (is_alive(enemy') /\ acted.e.stunned)
                        => /\ ~obs'.attacked
                           /\ ~enemy'.stunned
                           /\ ~obs'.drained => player' = acted.p
                   /\ (is_alive(enemy') /\ acted.e.attack_debuff > 0)
                        => /\ obs'.attacked
                           /\ enemy'.attack_debuff = 0
                           /\ ReduceBy(obs'.c.eroll, 30) < obs'.c.eroll
                           /\ (/\ is_alive(player')
                               /\ acted.p.tonic_turns = 0
                               /\ ~obs'.drained)
                                => Standing(acted.p) - Standing(player')
                                       = ReduceBy(obs'.c.eroll, 30)]_vars

\* The caster used Stampede, and the enemy, alive, attacked with the debuff
\* and has none left.
C29_Witness ==
    /\ pc = "battle"
    /\ obs.op = "turn"
    /\ obs.result = "used"
    /\ obs.skill = "Stampede"
    /\ obs.attacked
    /\ is_alive(enemy)
    /\ is_alive(player)
    /\ enemy.attack_debuff = 0
    /\ obs.since > 0

---------------------------------------------------------------------------
(* The run of the damage tonic *)

\* The player as the enemy's action of the step finds it: after the player's
\* own action and the drain of the endless gimmick.
BeforeEnemyActs ==
    LET acted == show_options(player, enemy, obs'.c.choice, obs'.c.roll,
                              obs'.c.raw)
    IN  IF obs'.drained THEN PlayerTakeDamage(acted.p, obs'.c.drain)
        ELSE acted.p

\* What the enemy's attack of the step is worth after the debuff the player's
\* action left on the enemy.
Aimed ==
    ReduceBy(obs'.c.eroll,
             show_options(player, enemy, obs'.c.choice, obs'.c.roll,
                          obs'.c.raw).e.attack_debuff)

Landed == Standing(BeforeEnemyActs) - Standing(player')

TurnStep == pc = "action" /\ obs'.op = "turn"

TonicBought ==
    pc = "shop" /\ obs'.op = "shop" /\ obs'.choice = "1"
        /\ obs'.result = "bought"

---------------------------------------------------------------------------
(* The stacks of Ember's Fury *)

Fury(p) == p.passives["Ember's Fury"]

\* The step is the turn in which a boss falls.
BossFalls ==
    TurnStep /\ enemy.kind = "Boss" /\ is_alive(enemy) /\ ~is_alive(enemy')

\* C31: the attack that Ember's Fury gives is 5 for each stack: the stacks
\* change only when a boss falls, and the attack power rises then by 5 times
\* the stacks gained.  The first fall of a boss gives one stack, a later one
\* with fewer than 3 stacks one or two, and one met with 3 stacks changes
\* neither the stacks nor the attack power nor the HP.
C31_FuryStacks ==
    /\ [][~BossFalls => Fury(player') = Fury(player)]_vars
    /\ [][BossFalls
            => /\ player'.attack_power - player.attack_power
                    = 5 * (Fury(player') - Fury(player))
               /\ Fury(player) = 0 => Fury(player') = 1
               /\ Fury(player) \in {1, 2}
                    => Fury(player') - Fury(player) \in {1, 2}
               /\ Fury(player) = 3
                    => /\ Fury(player') = 3
                       /\ player'.health = BeforeEnemyActs.health
                       /\ player'.irrigation_shield
                            = BeforeEnemyActs.irrigation_shield]_vars

\* The boss of wave 10 has fallen to a player who held one stack: the surge
\* gave a second one at once, the player holds three.
C31_Witness ==
    /\ wave = 10
    /\ obs.op = "turn"
    /\ obs.c.bonus
    /\ enemy.kind = "Boss"
    /\ ~is_alive(enemy)
    /\ Fury(player) = 3

---------------------------------------------------------------------------
(* The failed activation *)

\* The step asks for an activation with a fragment and the funds of the price.
ActivationTried ==
    /\ pc = "shop" /\ obs'.op = "shop" /\ obs'.choice = "5"
    /\ player.konami_fragments > 0
    /\ player.coins >= StatedPrice(player.konami_purchase_count,
                                   endless_mode).coins
    /\ player.gold >= StatedPrice(player.konami_purchase_count,
                                  endless_mode).gold

\* C32: an activation tried with the funds and a wrong sequence of tokens
\* fails, and a failed activation charges nothing: gold, coins, purchase
\* count, attack, max HP, HP and skills are as before, and the fragments are
\* as before or one fewer (the fragment broke).
C32_FailedActivationIsFree ==
    /\ [][(ActivationTried /\ Normalized(obs'.tokens) # KONAMI_SEQUENCE)
            => obs'.result \in {"fizzled", "broken"}]_vars
    /\ [][(pc = "shop" /\ obs'.op = "shop"
              /\ obs'.result \in {"fizzled", "broken"})
            => /\ ActivationTried
               /\ player'.gold = player.gold
               /\ player'.coins = player.coins
               /\ player'.konami_purchase_count = player.konami_purchase_count
               /\ player'.attack_power = player.attack_power
               /\ player'.max_hp = player.max_hp
               /\ player'.health = player.health
               /\ player'.skills = player.skills
               /\ player'.konami_fragments
                    = IF obs'.result = "broken"
                      THEN player.konami_fragments - 1
                      ELSE player.konami_fragments]_vars

\* The failed activation of an endless session broke the fragment; the purse
\* still holds more than the price.
C32_Witness ==
    /\ obs.op = "shop"
    /\ obs.result = "broken"
    /\ endless_mode
    /\ player.konami_fragments = 0
    /\ player.konami_purchase_count = 0
    /\ player.coins = 9 + MaxSpareCoins
    /\ player.gold = 6 + MaxSpareGold

---------------------------------------------------------------------------
(* The rolling buffer of push *)

\* A new tracker, without a cap of uses or with one, and someone who types in
\* one spelling.
InitTracker ==
    /\ \E n \in {0, MaxUses} : konami_manager = NewKonamiManager(n)
    /\ \E typing \in {"plain", "capitals"} :
           obs = [op |-> "none", exact |-> FALSE, result |-> "none",
                  uses |-> 0, matches |-> 0, junk |-> 0, typing |-> typing,
                  raw |-> "", may |-> FALSE, last |-> <<>>, raws |-> <<>>]
    /\ player = NewPlayer
    /\ enemy = NoEnemy
    /\ wave = 1
    /\ turn_count = 0
    /\ endless_mode = FALSE
    /\ stop_requested = FALSE
    /\ used_events = {}
    /\ current_area = "none"
    /\ pc = "konami"
    /\ hist = NoHist
    /\ twin = NoTwin

SpecTracker == InitTracker /\ [][NextKonami]_vars

PushReturned == obs.op = "push" /\ obs.may /\ LowerStrip(obs.raw) # ""

\* What C33 says of every push but its condition of success: the buffer holds
\* ten tokens at most, a success empties it, and a token that is empty or
\* blank changes nothing.
RollingBufferFrame ==
    /\ [](Len(konami_manager.buffer) <= Len(KONAMI_SEQUENCE))
    /\ []((obs.op = "push" /\ obs.result = "success")
            => konami_manager.buffer = <<>>)
    /\ [][(obs'.op = "push" /\ LowerStrip(obs'.raw) = "")
            => (konami_manager' = konami_manager
                  /\ obs'.result = "failure")]_vars

\* C33 as stated: the buffer never holds more than 10 tokens; while uses remain,
\* a push returns success exactly when the last 10 tokens that were not blank
\* pushed since the last successful push are equal to the sequence; a success
\* empties the buffer; an empty or blank token leaves the buffer unchanged.
C33_RollingBufferAsStated ==
    /\ RollingBufferFrame
    /\ [](PushReturned
            => (obs.result = "success" <=> obs.last = KONAMI_SEQUENCE))

\* C33, amended: the tokens are compared after lower-casing and stripping, so
\* the sequence pushed in capitals is recognised too; the buffer is the last
\* ten (at most) of the tokens so spelled that were pushed since the last
\* successful push; the rest as stated.
C33_RollingBuffer ==
    /\ RollingBufferFrame
    /\ [](konami_manager.buffer = Normalized(obs.raws))
    /\ [](PushReturned
            => (obs.result = "success"
                  <=> Normalized(obs.last) = KONAMI_SEQUENCE))

\* The sequence typed in capitals is recognised a second time, after a token
\* of junk: the last ten tokens pushed are those of the sequence.
C33_Witness ==
    /\ obs.op = "push"
    /\ obs.result = "success"
    /\ obs.typing = "capitals"
    /\ obs.junk = MaxTypedJunk
    /\ obs.matches = MaxMatches
    /\ obs.last # KONAMI_SEQUENCE
    /\ Normalized(obs.last) = KONAMI_SEQUENCE
    /\ konami_manager.buffer = <<>>

---------------------------------------------------------------------------
(* The stash of fragments *)

\* C34: the player never holds more than one fragment: the fragment a boss
\* left is gone at the decay step of the fifth wave after, which comes before
\* the boss of that wave can leave another.
C34_AtMostOneFragment ==
    /\ player.konami_fragments <= 1
    /\ (wave % 5 = 0 /\ pc = "action") => player.konami_fragments = 0

\* The boss of wave 10 stands before a player whose fragment of wave 5, never
\* spent, has just gone in the decay step.
C34_Witness ==
    /\ wave = 10
    /\ pc = "action"
    /\ turn_count = 1
    /\ enemy.kind = "Boss"
    /\ player.konami_purchase_count = 0
    /\ player.konami_fragments = 0
    /\ player.konami_fragment_rounds_left = 0

---------------------------------------------------------------------------
(* The player before the battle *)

\* The battle of the wave is about to start.
BattleStarts == pc = "battle" /\ turn_count = 0

\* C35: the player is alive at the start of every battle, and in the shop
\* before it: neither the story beat nor the random events of the wave, one or
\* two in a chain, nor the shop bring the HP to 0.
C35_AliveAtBattleStart ==
    /\ BattleStarts => is_alive(player)
    /\ pc = "shop" => is_alive(player)

\* The same of the events alone, for every event and every chain of two, at
\* every scale of endless mode (the specification SpecScale): the player who
\* meets them at full HP is alive after them.
EventsLeaveAlive == pc \in {"returned", "chained"} => is_alive(player)

\* The battle of wave 27 starts after a chain of two events, the second of
\* which took a part of the HP.
C35_Witness ==
    /\ BattleStarts
    /\ wave = 27
    /\ endless_mode
    /\ obs.op = "start_wave"
    /\ Len(obs.fired) = 2
    /\ EventDamageBase(obs.fired[2]) > 0
    /\ player.health < player.max_hp
    /\ is_alive(player)

---------------------------------------------------------------------------
(* The shield and the events *)

\* The events that raise the shield
ShieldEvents == {"Lost Cow Returns", "Irrigation Boom"}

\* What an event of the step takes from the HP, and the shield it leaves of a
\* shield s, for a player of the max HP of the state before the step.
EventLosses(event) ==
    IF EventDamageBase(event) > 0
    THEN RoundFloat(player.max_hp, EventPercent(event, wave, endless_mode))
    ELSE {0}

ShieldsAfter(s, event) ==
    IF event \in ShieldEvents
    THEN {Max(s, Max(1, a)) :
             a \in RoundFloat(player.max_hp,
                              EventPercent(event, wave, endless_mode))}
    ELSE {s}

\* The events fired by the step are one or two, none of them Strange Seed
\* Sprouts (which moves the max HP and the HP).
FiredPlainly ==
    /\ obs'.op = "start_wave"
    /\ Len(obs'.fired) \in 1..2
    /\ \A i \in DOMAIN obs'.fired : obs'.fired[i] # "Strange Seed Sprouts"

\* C36: the percentage damage of a random event is taken from the HP in full and
\* leaves the shield as it is (after the events of a trigger the shield is what
\* the shield events among them made of it, and the HP is lower by the whole
\* damage of the damaging ones); the shield goes down only in a turn of the
\* battle, where every damage to the player goes through take_damage; and the
\* shield is never negative.
C36_EventsBypassShield ==
    /\ [](player.irrigation_shield >= 0)
    /\ [][player'.irrigation_shield < player.irrigation_shield
             => TurnStep]_vars
    /\ [][FiredPlainly
             => LET first == obs'.fired[1]
                    last == obs'.fired[Len(obs'.fired)]
                    two == Len(obs'.fired) = 2
                IN  /\ \E s1 \in ShieldsAfter(player.irrigation_shield, first) :
                          player'.irrigation_shield
                             \in (IF two THEN ShieldsAfter(s1, last) ELSE {s1})
                    /\ \E a1 \in EventLosses(first) :
                       \E a2 \in (IF two THEN EventLosses(last) ELSE {0}) :
                          player'.health
                             = Max(0, Max(0, player.health - a1) - a2)]_vars

\* Wave 9 of the story: Lost Cow Returns raised a shield of 83 (36% of the 230
\* max HP) and the chained Sudden Hail took 28 HP (12%) of the shielded player:
\* the shield still holds 83.
C36_Witness ==
    /\ obs.op = "start_wave"
    /\ wave = 9
    /\ obs.fired = <<"Lost Cow Returns", "Sudden Hail">>
    /\ player.max_hp = 230
    /\ player.irrigation_shield = 83
    /\ player.health = 230 - 28

===========================================================================
